---- MODULE Spec2Model ----
(***************************************************************************)
(* A model of the circuit simulator: the node graph (lib/nodes.js), the    *)
(* Scheduler (lib/scheduler.js) and the Circuit engine with its clone and  *)
(* its Quine-McCluskey minimizer (public/lib/circuit.js).                  *)
(*                                                                         *)
(* JavaScript objects live in two heaps: `nodes` (every Node object) and   *)
(* `circuits` (every Circuit object with its Scheduler).  A reference is   *)
(* the index of the object in its heap, so reference identity is index     *)
(* equality and aliasing is two references holding one index.  Operators  *)
(* that model methods take the heaps as a record st = [nodes, circuits,    *)
(* err] and return the heaps after the call; st.err carries a thrown       *)
(* exception out of the call, every later step of which is skipped.        *)
(***************************************************************************)
EXTENDS Integers, Sequences, FiniteSets, TLC

VARIABLES nodes, circuits, topo, main, fork, fresh, forkKind, cloneMap,
          lastOp, outs, inSync, steps, lastError, log, result

vars == <<nodes, circuits, topo, main, fork, fresh, forkKind, cloneMap,
          lastOp, outs, inSync, steps, lastError, log, result>>

(***************************************************************************)
(* Values of the language.                                                 *)
(***************************************************************************)
\* null: FeedbackNode(null, ...); also "no circuit" in the model's handles
Null == 0
\* undefined: the value of a property an object does not have
Undefined == -1
\* -Infinity of #computeInputLength, below every Input index and below -1
NegInfinity == -2
NoError == "none"
\* no call has returned a value yet
NoResult == [op |-> "none"]
Bits == {0, 1}
\* evaluate(inputs = [], maxDeltaCycles = 50)
DefaultMaxDeltaCycles == 50
\* evaluateUntilStable(inputs = [], maxOuter = 100)
DefaultMaxOuter == 100

Max(a, b) == IF a >= b THEN a ELSE b

\* const x = e: the one element of {body : x \in {e}} is the body with x
\* naming the value of e
The(S) == CHOOSE v \in S : TRUE

(***************************************************************************)
(* Node objects.  One record shape for every variant; `kind` is the class. *)
(***************************************************************************)
BlankNode ==
  [kind |-> "Literal", value |-> 0, index |-> 0, gateType |-> "", inputNodes |-> <<>>,
   delay |-> 0, lastValue |-> 0, inputNode |-> Null, initialValue |-> 0,
   currentValue |-> 0, subCircuit |-> Null, lastEvaluationTick |-> 0,
   cachedOutputs |-> <<>>, compositeNode |-> Null, outputIndex |-> 0]

LiteralNode(value) == [BlankNode EXCEPT !.kind = "Literal", !.value = value]

InputNode(index) == [BlankNode EXCEPT !.kind = "Input", !.index = index]

ClockNode == [BlankNode EXCEPT !.kind = "Clock"]

GateNode(gateType, inputNodes, delay) ==
  [BlankNode EXCEPT !.kind = "Gate", !.gateType = gateType, !.inputNodes = inputNodes,
                    !.delay = delay, !.lastValue = 0]

FeedbackNode(inputNode, initialValue, delay) ==
  [BlankNode EXCEPT !.kind = "Feedback", !.inputNode = inputNode,
                    !.initialValue = initialValue, !.currentValue = initialValue,
                    !.delay = delay]

SubCircuitOutputNode(compositeNode, outputIndex) ==
  [BlankNode EXCEPT !.kind = "SubCircuitOutput", !.compositeNode = compositeNode,
                    !.outputIndex = outputIndex]

\* the object a CompositeNode constructor leaves once its sub-circuit is cloned
CompositeRecord(subCircuit, inputNodes) ==
  [BlankNode EXCEPT !.kind = "Composite", !.subCircuit = subCircuit,
                    !.inputNodes = inputNodes, !.lastEvaluationTick = -1,
                    !.cachedOutputs = <<>>]

(***************************************************************************)
(* Heap bookkeeping.                                                       *)
(***************************************************************************)
EmptyHeap == [nodes |-> <<>>, circuits |-> <<>>, err |-> NoError]

Failed(st) == st.err # NoError

Throw(st, e) == IF Failed(st) THEN st ELSE [st EXCEPT !.err = e]

Ret(st, v) == [st |-> st, val |-> v]

\* `new X(...)`: the object gets the next free index
AddNode(st, rec) == [st EXCEPT !.nodes = Append(@, rec)]

LastNode(st) == Len(st.nodes)

AddCircuit(st, rec) == [st EXCEPT !.circuits = Append(@, rec)]

LastCircuit(st) == Len(st.circuits)

(***************************************************************************)
(* Gate functions.  A registered function is a descriptor: one of the      *)
(* STANDARD_GATES, or a truth-table lookup (the set of rows mapped to 1).  *)
(***************************************************************************)
StdGate(name) == [fn |-> name, ones |-> {}]

TableGate(ones) == [fn |-> "TABLE", ones |-> ones]

RECURSIVE ReduceAnd(_, _)
ReduceAnd(bits, acc) ==
  IF bits = <<>> THEN acc
  ELSE ReduceAnd(Tail(bits), IF acc = 1 /\ Head(bits) = 1 THEN 1 ELSE 0)

RECURSIVE ReduceOr(_, _)
ReduceOr(bits, acc) ==
  IF bits = <<>> THEN acc
  ELSE ReduceOr(Tail(bits), IF acc = 1 \/ Head(bits) = 1 THEN 1 ELSE 0)

RECURSIVE ReduceXor(_, _)
ReduceXor(bits, acc) ==
  IF bits = <<>> THEN acc ELSE ReduceXor(Tail(bits), (acc + Head(bits)) % 2)

\* the call gateFunc(childVals): [val, err]
ApplyGate(f, childVals) ==
  CASE f.fn = "AND" -> [val |-> ReduceAnd(childVals, 1), err |-> NoError]
    [] f.fn = "OR"  -> [val |-> ReduceOr(childVals, 0), err |-> NoError]
    [] f.fn = "XOR" -> [val |-> ReduceXor(childVals, 0), err |-> NoError]
    [] f.fn = "NOT" ->
         IF Len(childVals) # 1 THEN [val |-> 0, err |-> "ArityError"]
         ELSE [val |-> IF childVals[1] = 1 THEN 0 ELSE 1, err |-> NoError]
    [] OTHER -> [val |-> IF childVals \in f.ones THEN 1 ELSE 0, err |-> NoError]

StandardRegistry ==
  [g \in {"AND", "OR", "NOT", "XOR"} |-> StdGate(g)]

(***************************************************************************)
(* Scheduler.  An event is {targetTick, callback, description}; a callback *)
(* is the closure's captured data: the node it writes, the field it        *)
(* writes (lastValue of a Gate, currentValue of a Feedback) and the value. *)
(***************************************************************************)
Callback(node, field, value) == [node |-> node, field |-> field, value |-> value]

Description(text, value) == [text |-> text, value |-> value]

DefaultDescription == Description("event", 0)

Event(targetTick, callback, description) ==
  [targetTick |-> targetTick, callback |-> callback, description |-> description]

\* a scheduler that queues every event one tick late
scheduleEventLate(st, c, targetTick, callback, description) ==
  IF Failed(st) THEN st
  ELSE [st EXCEPT !.circuits[c].events =
          Append(@, Event(targetTick + 1, callback, description))]

scheduleEvent(st, c, targetTick, callback, description) ==
  IF Failed(st) THEN st
  ELSE [st EXCEPT !.circuits[c].events = Append(@, Event(targetTick, callback, description))]

\* a scheduler that also hands out the events of earlier ticks
consumeEventsUpToTick(events, tick) ==
  [ready     |-> SelectSeq(events, LAMBDA e : e.targetTick <= tick),
   remaining |-> SelectSeq(events, LAMBDA e : e.targetTick > tick)]

consumeEventsForTick(events, tick) ==
  [ready     |-> SelectSeq(events, LAMBDA e : e.targetTick = tick),
   remaining |-> SelectSeq(events, LAMBDA e : e.targetTick # tick)]

\* a scheduler that always reports an event for the tick
hasEventsAlways(events, tick) == TRUE

hasEventsForTick(events, tick) ==
  \E i \in 1..Len(events) : events[i].targetTick = tick

\* e.callback(): the closure writes its captured value into its captured node
RunCallback(st, cb) ==
  IF Failed(st) THEN st ELSE [st EXCEPT !.nodes[cb.node][cb.field] = cb.value]

\* events.forEach((e) => e.callback())
RECURSIVE FireEvents(_, _)
FireEvents(st, events) ==
  IF events = <<>> THEN st
  ELSE FireEvents(RunCallback(st, Head(events).callback), Tail(events))

(***************************************************************************)
(* Circuit objects.                                                        *)
(***************************************************************************)
NewCircuit(rootNodes) ==
  [rootNodes |-> rootNodes, totalTicks |-> 0, currentTick |-> 0, clock |-> 0,
   prevClock |-> 0, feedbackNodes |-> <<>>, gateRegistry |-> [g \in {} |-> StdGate(g)],
   events |-> <<>>, history |-> <<>>]

\* a setClock that forgets the value it replaces
setClockNoShift(st, c, value) ==
  [st EXCEPT !.circuits[c].clock = value]

setClock(st, c, value) ==
  [st EXCEPT !.circuits[c].prevClock = st.circuits[c].clock,
             !.circuits[c].clock = value]

\* a getEdgeTrigger that compares prevClock to clock
getEdgeTriggerSwapped(st, c) ==
  IF st.circuits[c].clock = st.circuits[c].prevClock THEN "SAME"
  ELSE IF st.circuits[c].prevClock > st.circuits[c].clock THEN "POSITIVE EDGE TRIGGER"
  ELSE "NEGATIVE EDGE TRIGGER"

getEdgeTrigger(st, c) ==
  IF st.circuits[c].clock = st.circuits[c].prevClock THEN "SAME"
  ELSE IF st.circuits[c].clock > st.circuits[c].prevClock THEN "POSITIVE EDGE TRIGGER"
  ELSE "NEGATIVE EDGE TRIGGER"

\* a registry object shared by every circuit
registerGateShared(st, c, name, func) ==
  [st EXCEPT !.circuits = [k \in 1..Len(st.circuits) |->
     [st.circuits[k] EXCEPT !.gateRegistry =
        [g \in (DOMAIN @) \cup {name} |-> IF g = name THEN func ELSE @[g]]]]]

registerGate(st, c, name, func) ==
  [st EXCEPT !.circuits[c].gateRegistry =
     [g \in (DOMAIN @) \cup {name} |-> IF g = name THEN func ELSE @[g]]]

Includes(seq, x) == \E i \in 1..Len(seq) : seq[i] = x

\* a registration that keeps only the first node registered
registerFeedbackNodeOnlyFirst(st, c, node) ==
  IF st.circuits[c].feedbackNodes = <<>>
  THEN [st EXCEPT !.circuits[c].feedbackNodes = <<node>>]
  ELSE st

registerFeedbackNode(st, c, node) ==
  LET list == st.circuits[c].feedbackNodes
      once == IF ~Includes(list, node) THEN Append(list, node) ELSE list
  IN [st EXCEPT !.circuits[c].feedbackNodes = Append(once, node)]

arraysEqual(a, b) ==
  /\ Len(a) = Len(b)
  /\ \A i \in 1..Len(a) : a[i] = b[i]

(***************************************************************************)
(* Node.evaluate(circuit, inputs), by class.  The result is [st, val].     *)
(***************************************************************************)
RECURSIVE NodeEvaluate(_, _, _, _)
RECURSIVE EvaluateAll(_, _, _, _)
RECURSIVE CircuitEvaluate(_, _, _, _)
RECURSIVE UntilStableLoop(_, _, _, _, _, _, _)

\* nodes.map((n) => n.evaluate(circuit, inputs)), left to right: [st, vals]
EvaluateAll(st, c, ns, inputs) ==
  IF ns = <<>> THEN [st |-> st, vals |-> <<>>]
  ELSE The({ The({ [st |-> rest.st, vals |-> <<r.val>> \o rest.vals]
                   : rest \in {EvaluateAll(r.st, c, Tail(ns), inputs)} })
             : r \in {NodeEvaluate(st, c, Head(ns), inputs)} })

\* inputs[this.index] ?? 0
InputEvaluate(st, n, inputs) ==
  LET i == st.nodes[n].index + 1
  IN Ret(st, IF i \in DOMAIN inputs THEN inputs[i] ELSE 0)

\* a gate that returns the lastValue it held, also with delay 0
GateEvaluateStale(st, c, n, inputs) ==
  IF st.nodes[n].gateType \notin DOMAIN st.circuits[c].gateRegistry
  THEN Ret(Throw(st, "UnregisteredGate"), 0)
  ELSE The({ The({
         IF Failed(ch.st) THEN Ret(ch.st, 0)
         ELSE IF r.err # NoError THEN Ret(Throw(ch.st, r.err), 0)
         ELSE Ret([ch.st EXCEPT !.nodes[n].lastValue = r.val], ch.st.nodes[n].lastValue)
         : r \in {ApplyGate(st.circuits[c].gateRegistry[st.nodes[n].gateType], ch.vals)} })
       : ch \in {EvaluateAll(st, c, st.nodes[n].inputNodes, inputs)} })

\* a gate that reads 0 when its kind has no registered function
GateEvaluateLenient(st, c, n, inputs) ==
  IF st.nodes[n].gateType \notin DOMAIN st.circuits[c].gateRegistry
  THEN Ret(st, 0)
  ELSE The({ The({
         IF Failed(ch.st) THEN Ret(ch.st, 0)
         ELSE IF r.err # NoError THEN Ret(Throw(ch.st, r.err), 0)
         ELSE IF st.nodes[n].delay > 0
         THEN Ret(scheduleEvent(ch.st, c,
                                ch.st.circuits[c].currentTick + st.nodes[n].delay,
                                Callback(n, "lastValue", r.val),
                                Description("Update gate", r.val)),
                  ch.st.nodes[n].lastValue)
         ELSE Ret([ch.st EXCEPT !.nodes[n].lastValue = r.val], r.val)
         : r \in {ApplyGate(st.circuits[c].gateRegistry[st.nodes[n].gateType], ch.vals)} })
       : ch \in {EvaluateAll(st, c, st.nodes[n].inputNodes, inputs)} })

GateEvaluate(st, c, n, inputs) ==
  LET node == st.nodes[n]
      reg  == st.circuits[c].gateRegistry
  IN IF node.gateType \notin DOMAIN reg
     THEN Ret(Throw(st, "UnregisteredGate"), 0)
     ELSE The({ The({
            IF Failed(ch.st) THEN Ret(ch.st, 0)
            ELSE IF r.err # NoError THEN Ret(Throw(ch.st, r.err), 0)
            ELSE IF node.delay > 0
            THEN Ret(scheduleEvent(ch.st, c,
                                   ch.st.circuits[c].currentTick + node.delay,
                                   Callback(n, "lastValue", r.val),
                                   Description("Update gate", r.val)),
                     ch.st.nodes[n].lastValue)
            ELSE Ret([ch.st EXCEPT !.nodes[n].lastValue = r.val], r.val)
            : r \in {ApplyGate(reg[node.gateType], ch.vals)} })
          : ch \in {EvaluateAll(st, c, node.inputNodes, inputs)} })

\* a loop that tests i <= maxOuter
UntilStableLoopOffByOne(st, c, inputs, maxOuter, i, hasOld, old) ==
  IF Failed(st) THEN Ret(st, old)
  ELSE IF i > maxOuter THEN Ret(st, old)
  ELSE The({ IF Failed(r.st) THEN Ret(r.st, old)
             ELSE IF hasOld /\ arraysEqual(old, r.val) THEN Ret(r.st, r.val)
             ELSE UntilStableLoop(r.st, c, inputs, maxOuter, i + 1, TRUE, r.val)
             : r \in {CircuitEvaluate(st, c, inputs, DefaultMaxDeltaCycles)} })

\* a loop without the early return
UntilStableLoopToTheCap(st, c, inputs, maxOuter, i, hasOld, old) ==
  IF Failed(st) THEN Ret(st, old)
  ELSE IF i >= maxOuter THEN Ret(st, old)
  ELSE The({ IF Failed(r.st) THEN Ret(r.st, old)
             ELSE UntilStableLoop(r.st, c, inputs, maxOuter, i + 1, TRUE, r.val)
             : r \in {CircuitEvaluate(st, c, inputs, DefaultMaxDeltaCycles)} })

\* for (i < maxOuter) { out = tick(inputs); if (old !== null && equal) return out; old = out }
UntilStableLoop(st, c, inputs, maxOuter, i, hasOld, old) ==
  IF Failed(st) THEN Ret(st, old)
  ELSE IF i >= maxOuter THEN Ret(st, old)
  ELSE The({ IF Failed(r.st) THEN Ret(r.st, old)
             ELSE IF hasOld /\ arraysEqual(old, r.val) THEN Ret(r.st, r.val)
             ELSE UntilStableLoop(r.st, c, inputs, maxOuter, i + 1, TRUE, r.val)
             : r \in {CircuitEvaluate(st, c, inputs, DefaultMaxDeltaCycles)} })

evaluateUntilStable(st, c, inputs, maxOuter) ==
  UntilStableLoop(st, c, inputs, maxOuter, 0, FALSE, <<>>)

\* CompositeNode.evaluate without the per-tick cache
CompositeEvaluateUncached(st, c, n, inputs) ==
  The({ IF Failed(ch.st) THEN Ret(ch.st, <<>>)
        ELSE The({
               IF Failed(r.st) THEN Ret(r.st, <<>>)
               ELSE Ret([r.st EXCEPT !.nodes[n].cachedOutputs = r.val,
                                     !.nodes[n].lastEvaluationTick =
                                        r.st.circuits[c].currentTick],
                        r.val)
               : r \in {evaluateUntilStable(ch.st, st.nodes[n].subCircuit, ch.vals,
                                            DefaultMaxOuter)} })
        : ch \in {EvaluateAll(st, c, st.nodes[n].inputNodes, inputs)} })

CompositeEvaluate(st, c, n, inputs) ==
  LET node == st.nodes[n]
  IN IF node.lastEvaluationTick = st.circuits[c].currentTick
     THEN Ret(st, node.cachedOutputs)
     ELSE The({
            IF Failed(ch.st) THEN Ret(ch.st, <<>>)
            ELSE The({
                   IF Failed(r.st) THEN Ret(r.st, <<>>)
                   ELSE Ret([r.st EXCEPT !.nodes[n].cachedOutputs = r.val,
                                         !.nodes[n].lastEvaluationTick =
                                            r.st.circuits[c].currentTick],
                            r.val)
                   : r \in {evaluateUntilStable(ch.st, node.subCircuit, ch.vals,
                                                DefaultMaxOuter)} })
            : ch \in {EvaluateAll(st, c, node.inputNodes, inputs)} })

\* a SubCircuitOutput that reads output 0 whatever its outputIndex
SubCircuitOutputEvaluateFirst(st, c, n, inputs) ==
  The({ IF Failed(r.st) THEN Ret(r.st, 0)
        ELSE IF Len(r.val) = 0 THEN Ret(Throw(r.st, "IndexOutOfRange"), 0)
        ELSE Ret(r.st, r.val[1])
        : r \in {NodeEvaluate(st, c, st.nodes[n].compositeNode, inputs)} })

SubCircuitOutputEvaluate(st, c, n, inputs) ==
  LET node == st.nodes[n]
  IN The({ IF Failed(r.st) THEN Ret(r.st, 0)
           ELSE IF node.outputIndex >= Len(r.val) THEN Ret(Throw(r.st, "IndexOutOfRange"), 0)
           ELSE IF node.outputIndex < 0 THEN Ret(r.st, Undefined)
           ELSE Ret(r.st, r.val[node.outputIndex + 1])
           : r \in {NodeEvaluate(st, c, node.compositeNode, inputs)} })

\* an evaluate that puts the node back to its initial value
FeedbackEvaluateResetting(st, n) ==
  Ret([st EXCEPT !.nodes[n].currentValue = st.nodes[n].initialValue],
      st.nodes[n].initialValue)

FeedbackEvaluate(st, n) == Ret(st, st.nodes[n].currentValue)

NodeEvaluate(st, c, n, inputs) ==
  IF Failed(st) THEN Ret(st, 0)
  ELSE LET kind == st.nodes[n].kind
       IN CASE kind = "Literal"  -> Ret(st, st.nodes[n].value)
            [] kind = "Input"    -> InputEvaluate(st, n, inputs)
            [] kind = "Clock"    -> Ret(st, st.circuits[c].clock)
            [] kind = "Gate"     -> GateEvaluate(st, c, n, inputs)
            [] kind = "Feedback" -> FeedbackEvaluate(st, n)
            [] kind = "Composite" -> CompositeEvaluate(st, c, n, inputs)
            [] kind = "SubCircuitOutput" -> SubCircuitOutputEvaluate(st, c, n, inputs)

\* FeedbackNode.computeFeedback: evaluate the driving node and write at once
computeFeedback(st, c, n, inputs) ==
  LET node == st.nodes[n]
  IN IF Failed(st) \/ node.inputNode = Null THEN st
     ELSE The({ IF Failed(r.st) THEN r.st
                ELSE IF node.delay > 0
                THEN scheduleEvent(r.st, c, r.st.circuits[c].currentTick + node.delay,
                                   Callback(n, "currentValue", r.val),
                                   Description("Update gate", r.val))
                ELSE [r.st EXCEPT !.nodes[n].currentValue = r.val]
                : r \in {NodeEvaluate(st, c, node.inputNode, inputs)} })

(***************************************************************************)
(* Circuit.evaluate: one tick.                                             *)
(***************************************************************************)
NoUpdate == [node |-> Null, value |-> 0]

\* Phase 1: feedbackNodes.map(fb => fb.inputNode ? {node, value} : null)
RECURSIVE CaptureFeedback(_, _, _, _)
CaptureFeedback(st, c, fbs, inputs) ==
  IF fbs = <<>> \/ Failed(st) THEN [st |-> st, updates |-> <<>>]
  ELSE IF st.nodes[Head(fbs)].inputNode = Null
  THEN The({ [st |-> rest.st, updates |-> <<NoUpdate>> \o rest.updates]
             : rest \in {CaptureFeedback(st, c, Tail(fbs), inputs)} })
  ELSE The({ The({ [st |-> rest.st,
                    updates |-> <<IF Failed(r.st) THEN NoUpdate
                                  ELSE [node |-> Head(fbs), value |-> r.val]>>
                                \o rest.updates]
                   : rest \in {CaptureFeedback(r.st, c, Tail(fbs), inputs)} })
             : r \in {NodeEvaluate(st, c, st.nodes[Head(fbs)].inputNode, inputs)} })

\* an update that reaches currentValue only at the next tick
ApplyUpdateNextTick(st, c, update) ==
  IF Failed(st) \/ update.node = Null THEN st
  ELSE scheduleEvent(st, c, st.circuits[c].currentTick + 1,
                     Callback(update.node, "currentValue", update.value),
                     Description("Update", update.value))

\* Phase 2: one element of feedbackUpdates.forEach
ApplyUpdate(st, c, update) ==
  IF Failed(st) \/ update.node = Null THEN st
  ELSE IF st.nodes[update.node].delay = 0
  THEN [st EXCEPT !.nodes[update.node].currentValue = update.value]
  ELSE IF st.nodes[update.node].delay > 0
  THEN scheduleEvent(st, c, st.circuits[c].currentTick + st.nodes[update.node].delay,
                     Callback(update.node, "currentValue", update.value),
                     Description("Update", update.value))
  ELSE st

RECURSIVE ApplyFeedback(_, _, _)
ApplyFeedback(st, c, updates) ==
  IF updates = <<>> THEN st
  ELSE ApplyFeedback(ApplyUpdate(st, c, Head(updates)), c, Tail(updates))

\* the older one-phase update: feedbackNodes.forEach(fb => fb.computeFeedback(...))
UpdateFeedbackOnePhase(st, c, inputs) ==
  LET F[i \in 0..Len(st.circuits[c].feedbackNodes)] ==
        IF i = 0 THEN st
        ELSE computeFeedback(F[i - 1], c, st.circuits[c].feedbackNodes[i], inputs)
  IN F[Len(st.circuits[c].feedbackNodes)]

\* the two-phase feedback update of a delta cycle
UpdateFeedback(st, c, inputs) ==
  The({ ApplyFeedback(p.st, c, p.updates)
        : p \in {CaptureFeedback(st, c, st.circuits[c].feedbackNodes, inputs)} })

\* One delta cycle: fire the events of currentTick, update the feedback
\* nodes, evaluate the roots.
DeltaCycle(st, c, inputs) ==
  LET queueBefore == st.circuits[c].events
      ev == consumeEventsForTick(queueBefore, st.circuits[c].currentTick)
  IN The({ [st |-> out.st, outputs |-> out.vals,
            entry |-> [queueBefore |-> queueBefore, consumedEvents |-> ev.ready,
                       queueAfter |-> out.st.circuits[c].events, outputs |-> out.vals]]
           : out \in {EvaluateAll(
                        UpdateFeedback(
                          FireEvents([st EXCEPT !.circuits[c].events = ev.remaining], ev.ready),
                          c, inputs),
                        c, st.circuits[c].rootNodes, inputs)} })

\* while (hasEventsForTick(currentTick) && iteration < maxDeltaCycles) { ... }
RECURSIVE DeltaLoop(_, _, _, _, _, _, _)
DeltaLoop(st, c, inputs, maxDeltaCycles, iteration, oldOutputs, subHistory) ==
  IF \/ Failed(st)
     \/ ~(/\ hasEventsForTick(st.circuits[c].events, st.circuits[c].currentTick)
          /\ iteration < maxDeltaCycles)
  THEN [st |-> st, iteration |-> iteration, outputs |-> oldOutputs, subHistory |-> subHistory]
  ELSE The({ IF Failed(d.st) \/ arraysEqual(oldOutputs, d.outputs)
             THEN [st |-> d.st, iteration |-> iteration + 1, outputs |-> oldOutputs,
                   subHistory |-> subHistory]
             ELSE DeltaLoop(d.st, c, inputs, maxDeltaCycles, iteration + 1, d.outputs,
                            Append(subHistory, [d.entry EXCEPT !.deltaCycle = iteration + 1]))
             : d \in {DeltaCycle(st, c, inputs)} })

\* an evaluate that counts the tick on entry
CircuitEvaluateCountOnEntry(st, c, inputs, maxDeltaCycles) ==
  IF Failed(st) THEN Ret(st, <<>>)
  ELSE The({ The({
         IF Failed(l.st) THEN Ret(l.st, <<>>)
         ELSE Ret([l.st EXCEPT
                     !.circuits[c].history =
                        Append(@, [tick |-> l.st.circuits[c].currentTick,
                                   subHistory |-> l.subHistory,
                                   unstable |-> hasEventsForTick(l.st.circuits[c].events,
                                                                 l.st.circuits[c].currentTick)])],
                  l.outputs)
         : l \in {DeltaLoop(d.st, c, inputs, maxDeltaCycles, 1, d.outputs,
                            <<[deltaCycle |-> 1] @@ d.entry>>)} })
       : d \in {DeltaCycle([st EXCEPT !.circuits[c].currentTick = st.circuits[c].totalTicks,
                                      !.circuits[c].totalTicks = @ + 1],
                           c, inputs)} })

\* an evaluate that counts the tick before it writes the history record
CircuitEvaluateCountFirst(st, c, inputs, maxDeltaCycles) ==
  IF Failed(st) THEN Ret(st, <<>>)
  ELSE The({ The({
         IF Failed(l.st) THEN Ret(l.st, <<>>)
         ELSE Ret([l.st EXCEPT
                     !.circuits[c].history =
                        Append(@, [tick |-> l.st.circuits[c].totalTicks + 1,
                                   subHistory |-> l.subHistory,
                                   unstable |-> hasEventsForTick(l.st.circuits[c].events,
                                                                 l.st.circuits[c].currentTick)]),
                     !.circuits[c].totalTicks = @ + 1],
                  l.outputs)
         : l \in {DeltaLoop(d.st, c, inputs, maxDeltaCycles, 1, d.outputs,
                            <<[deltaCycle |-> 1] @@ d.entry>>)} })
       : d \in {DeltaCycle([st EXCEPT !.circuits[c].currentTick = st.circuits[c].totalTicks],
                           c, inputs)} })

CircuitEvaluate(st, c, inputs, maxDeltaCycles) ==
  IF Failed(st) THEN Ret(st, <<>>)
  ELSE The({ The({
         IF Failed(l.st) THEN Ret(l.st, <<>>)
         ELSE Ret([l.st EXCEPT
                     !.circuits[c].history =
                        Append(@, [tick |-> l.st.circuits[c].totalTicks,
                                   subHistory |-> l.subHistory,
                                   unstable |-> hasEventsForTick(l.st.circuits[c].events,
                                                                 l.st.circuits[c].currentTick)]),
                     !.circuits[c].totalTicks = @ + 1],
                  l.outputs)
         : l \in {DeltaLoop(d.st, c, inputs, maxDeltaCycles, 1, d.outputs,
                            <<[deltaCycle |-> 1] @@ d.entry>>)} })
       : d \in {DeltaCycle([st EXCEPT !.circuits[c].currentTick = st.circuits[c].totalTicks],
                           c, inputs)} })

\* the value of `iteration` when evaluate leaves its loop: the number of
\* delta cycles the call runs
DeltaCycles(st, c, inputs, maxDeltaCycles) ==
  The({ DeltaLoop(d.st, c, inputs, maxDeltaCycles, 1, d.outputs,
                  <<[deltaCycle |-> 1] @@ d.entry>>).iteration
        : d \in {DeltaCycle([st EXCEPT !.circuits[c].currentTick = st.circuits[c].totalTicks],
                            c, inputs)} })

tick(st, c, inputs) == CircuitEvaluate(st, c, inputs, DefaultMaxDeltaCycles)

(***************************************************************************)
(* inputLength.                                                            *)
(***************************************************************************)
RECURSIVE computeInputLength(_, _, _)
RECURSIVE HighestOf(_, _, _, _)

\* for (child of children) highest = Math.max(highest, computeInputLength(child, visited))
HighestOf(st, children, visited, highest) ==
  IF children = <<>> THEN [highest |-> highest, visited |-> visited]
  ELSE The({ HighestOf(st, Tail(children), r.visited, Max(highest, r.highest))
             : r \in {computeInputLength(st, Head(children), visited)} })

\* a walk that does not follow a Feedback node to its driving node
computeInputLengthNoFeedback(st, n, visited) ==
  IF n = Null \/ n \in visited THEN [highest |-> NegInfinity, visited |-> visited]
  ELSE CASE st.nodes[n].kind = "Input" ->
              [highest |-> st.nodes[n].index, visited |-> visited \cup {n}]
         [] st.nodes[n].kind \in {"Gate", "Composite"} ->
              HighestOf(st, st.nodes[n].inputNodes, visited \cup {n}, -1)
         [] st.nodes[n].kind = "SubCircuitOutput" ->
              HighestOf(st, <<st.nodes[n].compositeNode>>, visited \cup {n}, -1)
         [] OTHER -> [highest |-> -1, visited |-> visited \cup {n}]

\* [highest, visited]: the returned value and the visited set after the call
computeInputLength(st, n, visited) ==
  IF n = Null \/ n \in visited THEN [highest |-> NegInfinity, visited |-> visited]
  ELSE LET node == st.nodes[n]
           seen == visited \cup {n}
       IN CASE node.kind = "Input" -> [highest |-> node.index, visited |-> seen]
            [] node.kind \in {"Gate", "Composite"} ->
                 HighestOf(st, node.inputNodes, seen, -1)
            [] node.kind = "Feedback" ->
                 IF node.inputNode # Null
                 THEN HighestOf(st, <<node.inputNode>>, seen, -1)
                 ELSE [highest |-> -1, visited |-> seen]
            [] node.kind = "SubCircuitOutput" ->
                 HighestOf(st, <<node.compositeNode>>, seen, -1)
            [] OTHER -> [highest |-> -1, visited |-> seen]

inputLength(st, c) ==
  LET roots == st.circuits[c].rootNodes
      H[i \in 0..Len(roots)] ==
        IF i = 0 THEN -1
        ELSE Max(H[i - 1], computeInputLength(st, roots[i], {}).highest)
  IN IF H[Len(roots)] < 0 THEN 0 ELSE H[Len(roots)] + 1

outputLength(st, c) == Len(st.circuits[c].rootNodes)

(***************************************************************************)
(* Cloning.  nodeMap is the Map from original node to copy.                *)
(***************************************************************************)
RECURSIVE cloneNode(_, _, _, _)
RECURSIVE CloneAll(_, _, _, _)
RECURSIVE clone(_, _, _)

EmptyMap == [n \in {} |-> Null]

MapSet(nodeMap, k, v) == [n \in (DOMAIN nodeMap) \cup {k} |-> IF n = k THEN v ELSE nodeMap[n]]

\* ns.map((c) => this.#cloneNode(c, nodeMap, preserveState)): [st, map, ids]
CloneAll(st, ns, nodeMap, preserveState) ==
  IF ns = <<>> THEN [st |-> st, map |-> nodeMap, ids |-> <<>>]
  ELSE The({ The({ [st |-> rest.st, map |-> rest.map, ids |-> <<r.id>> \o rest.ids]
                   : rest \in {CloneAll(r.st, Tail(ns), r.map, preserveState)} })
             : r \in {cloneNode(st, Head(ns), nodeMap, preserveState)} })

\* a constructor that keeps the template itself: this.subCircuit = subCircuit
CompositeConstructorSharing(st, subCircuit, inputNodes) ==
  LET s1 == AddNode(st, CompositeRecord(subCircuit, inputNodes))
  IN [st |-> s1, id |-> LastNode(s1)]

\* new CompositeNode(subCircuit, inputNodes): [st, id]
CompositeConstructor(st, subCircuit, inputNodes) ==
  The({ IF Failed(cl.st) THEN [st |-> cl.st, id |-> Null]
        ELSE IF Len(inputNodes) # inputLength(cl.st, cl.id)
        THEN [st |-> Throw(cl.st, "ArityMismatch"), id |-> Null]
        ELSE [st |-> AddNode(cl.st, CompositeRecord(cl.id, inputNodes)),
              id |-> Len(cl.st.nodes) + 1]
        : cl \in {clone(st, subCircuit, FALSE)} })

\* preserveState ? node.currentValue : node.initialValue
FeedbackCloneValueAlwaysCurrent(node, preserveState) == node.currentValue

FeedbackCloneValue(node, preserveState) ==
  IF preserveState THEN node.currentValue ELSE node.initialValue

\* if (preserveState) copy.lastValue = node.lastValue
GateCloneValue(node, preserveState) ==
  IF preserveState THEN node.lastValue ELSE 0

CloneGate(st, n, nodeMap, preserveState) ==
  LET node == st.nodes[n]
      copy == Len(st.nodes) + 1
  IN The({ IF Failed(ch.st) THEN [st |-> ch.st, map |-> ch.map, id |-> Null]
           ELSE [st  |-> [ch.st EXCEPT
                            !.nodes[copy].inputNodes = ch.ids,
                            !.nodes[copy].lastValue = GateCloneValue(node, preserveState)],
                 map |-> ch.map, id |-> copy]
           : ch \in {CloneAll(AddNode(st, GateNode(node.gateType, <<>>, node.delay)),
                              node.inputNodes, MapSet(nodeMap, n, copy), preserveState)} })

CloneFeedback(st, n, nodeMap, preserveState) ==
  LET node == st.nodes[n]
      copy == Len(st.nodes) + 1
  IN The({ IF Failed(r.st) THEN [st |-> r.st, map |-> r.map, id |-> Null]
           ELSE [st  |-> [r.st EXCEPT
                            !.nodes[copy].inputNode = r.id,
                            !.nodes[copy].currentValue =
                               IF preserveState THEN node.currentValue ELSE @],
                 map |-> r.map, id |-> copy]
           : r \in {cloneNode(AddNode(st, FeedbackNode(Null,
                                                       FeedbackCloneValue(node, preserveState),
                                                       node.delay)),
                              node.inputNode, MapSet(nodeMap, n, copy), preserveState)} })

CloneComposite(st, n, nodeMap, preserveState) ==
  LET node == st.nodes[n]
  IN The({ IF Failed(ch.st) THEN [st |-> ch.st, map |-> ch.map, id |-> Null]
           ELSE The({ IF Failed(made.st) THEN [st |-> made.st, map |-> ch.map, id |-> Null]
                      ELSE [st |-> made.st, map |-> MapSet(ch.map, n, made.id),
                            id |-> made.id]
                      : made \in {CompositeConstructor(ch.st, node.subCircuit, ch.ids)} })
           : ch \in {CloneAll(st, node.inputNodes, nodeMap, preserveState)} })

CloneSubCircuitOutput(st, n, nodeMap, preserveState) ==
  LET node == st.nodes[n]
  IN The({ IF Failed(r.st) THEN [st |-> r.st, map |-> r.map, id |-> Null]
           ELSE [st  |-> AddNode(r.st, SubCircuitOutputNode(r.id, node.outputIndex)),
                 map |-> MapSet(r.map, n, Len(r.st.nodes) + 1),
                 id  |-> Len(r.st.nodes) + 1]
           : r \in {cloneNode(st, node.compositeNode, nodeMap, preserveState)} })

\* Literal, Input, Clock: a new object of the same class, then nodeMap.set
CloneLeaf(st, n, nodeMap) ==
  LET node == st.nodes[n]
      copy == Len(st.nodes) + 1
  IN [st  |-> AddNode(st, CASE node.kind = "Literal" -> LiteralNode(node.value)
                            [] node.kind = "Input"   -> InputNode(node.index)
                            [] node.kind = "Clock"   -> ClockNode),
      map |-> MapSet(nodeMap, n, copy), id |-> copy]

\* [st, map, id]
cloneNode(st, n, nodeMap, preserveState) ==
  IF Failed(st) THEN [st |-> st, map |-> nodeMap, id |-> Null]
  ELSE IF n \in DOMAIN nodeMap THEN [st |-> st, map |-> nodeMap, id |-> nodeMap[n]]
  ELSE IF n = Null THEN [st |-> Throw(st, "UnclonableNode"), map |-> nodeMap, id |-> Null]
  ELSE LET kind == st.nodes[n].kind
       IN CASE kind \in {"Literal", "Input", "Clock"} -> CloneLeaf(st, n, nodeMap)
            [] kind = "Gate" -> CloneGate(st, n, nodeMap, preserveState)
            [] kind = "Feedback" -> CloneFeedback(st, n, nodeMap, preserveState)
            [] kind = "Composite" -> CloneComposite(st, n, nodeMap, preserveState)
            [] kind = "SubCircuitOutput" -> CloneSubCircuitOutput(st, n, nodeMap, preserveState)

\* event.tick: the events of the Scheduler have no property `tick`
EventTickAsTargetTick(event) == event.targetTick

EventTick(event) == Undefined

\* c.scheduler.scheduleEvent(event.tick, event.callback)
CloneEvents(events) ==
  [i \in 1..Len(events) |->
     Event(EventTick(events[i]), events[i].callback, DefaultDescription)]

\* JSON.parse(JSON.stringify(x)) of an event: functions and undefined are dropped
JsonEvent(e) == [e EXCEPT !.callback = Callback(Null, "", 0)]

JsonEvents(events) == [i \in 1..Len(events) |-> JsonEvent(events[i])]

JsonEntry(entry) ==
  [entry EXCEPT !.queueBefore = JsonEvents(@), !.consumedEvents = JsonEvents(@),
                !.queueAfter = JsonEvents(@)]

JsonHistory(history) ==
  [i \in 1..Len(history) |->
     [history[i] EXCEPT !.subHistory = [k \in 1..Len(@) |-> JsonEntry(@[k])]]]

\* c.clock = this.clock; c.prevClock = this.prevClock
CloneClock(st, c) == [clock |-> st.circuits[c].clock, prevClock |-> st.circuits[c].prevClock]

\* Circuit.clone(preserveState): [st, id, map]
clone(st, c, preserveState) ==
  LET this == st.circuits[c]
      base(rootIds, fbIds) ==
        [NewCircuit(rootIds) EXCEPT
           !.clock = CloneClock(st, c).clock,
           !.prevClock = CloneClock(st, c).prevClock,
           !.gateRegistry = this.gateRegistry,
           !.feedbackNodes = fbIds]
      made(rootIds, fbIds) ==
        IF preserveState
        THEN [base(rootIds, fbIds) EXCEPT !.events = CloneEvents(this.events),
                                          !.totalTicks = this.totalTicks,
                                          !.currentTick = this.currentTick,
                                          !.history = JsonHistory(this.history)]
        ELSE [base(rootIds, fbIds) EXCEPT !.events = <<>>, !.history = <<>>, !.totalTicks = 0]
  IN IF Failed(st) THEN [st |-> st, id |-> Null, map |-> EmptyMap]
     ELSE The({ The({
            IF Failed(fbs.st) THEN [st |-> fbs.st, id |-> Null, map |-> fbs.map]
            ELSE [st  |-> AddCircuit(fbs.st, made(roots.ids, fbs.ids)),
                  id  |-> Len(fbs.st.circuits) + 1,
                  map |-> fbs.map]
            : fbs \in {CloneAll(roots.st, this.feedbackNodes, roots.map, preserveState)} })
          : roots \in {CloneAll(st, this.rootNodes, EmptyMap, preserveState)} })

(***************************************************************************)
(* Truth table and Quine-McCluskey minimizer.  A term is a sequence over   *)
(* 0, 1 and Dash (the hole "-").  Prime indices are 0-based as in the      *)
(* source; primes[i] of the source is primes[i + 1] here.                  *)
(***************************************************************************)
\* the hole "-" of #combineTerms
Dash == 2

\* the default clockLevel = null of generateTruthTable
NullLevel == Undefined

SeqRange(seq) == {seq[i] : i \in 1..Len(seq)}

\* the concatenation of the sequences of seqs, in order
RECURSIVE Concat(_)
Concat(seqs) ==
  IF Len(seqs) = 0 THEN <<>>
  ELSE IF Len(seqs) = 1 THEN seqs[1]
  ELSE LET half == Len(seqs) \div 2
       IN Concat(SubSeq(seqs, 1, half)) \o Concat(SubSeq(seqs, half + 1, Len(seqs)))

\* num.toString(2): the binary digits, most significant first
RECURSIVE ToBinary(_)
ToBinary(num) == IF num < 2 THEN <<num>> ELSE ToBinary(num \div 2) \o <<num % 2>>

\* a conversion without padStart
numToBitArrayUnpadded(num, width) == ToBinary(num)

\* num.toString(2).padStart(width, "0").split("").map((bit) => +bit)
numToBitArray(num, width) ==
  LET digits == ToBinary(num)
  IN IF Len(digits) >= width THEN digits
     ELSE [i \in 1..(width - Len(digits)) |-> 0] \o digits

\* the objects allocated since the heaps had the given sizes are unreachable
\* once the call that made them returns: they are collected
Release(st, nNodes, nCircuits) ==
  [st EXCEPT !.nodes = SubSeq(@, 1, nNodes), !.circuits = SubSeq(@, 1, nCircuits)]

\* a row evaluated on the circuit itself instead of on a clone
TruthTableRowInPlace(st, c, inputs, clockLevel) ==
  The({ [st |-> r.st, row |-> [inputs |-> inputs, outputs |-> r.val]]
        : r \in {CircuitEvaluate(IF clockLevel \in {0, 1}
                                 THEN setClock(st, c, clockLevel) ELSE st,
                                 c, inputs, DefaultMaxDeltaCycles)} })

\* one row: clone(false), optional setClock, evaluate.  [st, row]
TruthTableRow(st, c, inputs, clockLevel) ==
  The({ The({ [st  |-> Release(r.st, Len(st.nodes), Len(st.circuits)),
               row |-> [inputs |-> inputs, outputs |-> r.val]]
              : r \in {CircuitEvaluate(IF clockLevel \in {0, 1} /\ ~Failed(cl.st)
                                       THEN setClock(cl.st, cl.id, clockLevel) ELSE cl.st,
                                       cl.id, inputs, DefaultMaxDeltaCycles)} })
        : cl \in {clone(st, c, FALSE)} })

\* [st, table]
generateTruthTable(st, c, clockLevel) ==
  LET n == inputLength(st, c)
      T[i \in 0..(2 ^ n)] ==
        IF i = 0 THEN [st |-> st, table |-> <<>>]
        ELSE The({ IF Failed(prev.st) THEN prev
                   ELSE The({ [st |-> r.st, table |-> Append(prev.table, r.row)]
                              : r \in {TruthTableRow(prev.st, c, numToBitArray(i - 1, n),
                                                     clockLevel)} })
                   : prev \in {T[i - 1]} })
  IN T[2 ^ n]

\* index is the 0-based output lane
generateMinterms(truthTable, index) ==
  LET hit == SelectSeq(truthTable, LAMBDA term : term.outputs[index + 1] = 1)
  IN [i \in 1..Len(hit) |-> hit[i].inputs]

RECURSIVE CountOnes(_)
CountOnes(term) ==
  IF term = <<>> THEN 0
  ELSE (IF Head(term) = Dash THEN 0 ELSE Head(term)) + CountOnes(Tail(term))

\* groups[k + 1] holds the terms with k ones
groupByOnes(terms) ==
  IF terms = <<>> THEN <<>>
  ELSE [g \in 1..(Len(terms[1]) + 1) |-> SelectSeq(terms, LAMBDA t : CountOnes(t) = g - 1)]

\* the count of the positions where both terms are fixed and differ
computeHammingDistanceDashEqual(a, b) ==
  LET diffs == Cardinality({i \in 1..Len(a) : a[i] # b[i] /\ a[i] # Dash /\ b[i] # Dash})
  IN IF diffs > 1 THEN 2 ELSE diffs

\* the count of differing positions, cut off at 2
computeHammingDistance(a, b) ==
  LET diffs == Cardinality({i \in 1..Len(a) : a[i] # b[i]})
  IN IF diffs > 1 THEN 2 ELSE diffs

combineTerms(a, b) == [i \in 1..Len(a) |-> IF a[i] = b[i] THEN a[i] ELSE Dash]

combineBitDifferences(groupsByOnes) ==
  Concat([i \in 1..(Len(groupsByOnes) - 1) |->
    LET current == groupsByOnes[i]
        next    == groupsByOnes[i + 1]
    IN Concat([x \in 1..Len(current) |->
         Concat([y \in 1..Len(next) |->
           IF computeHammingDistance(current[x], next[y]) = 1
           THEN <<combineTerms(current[x], next[y])>> ELSE <<>>])])])

RECURSIVE findPrimeImplicants(_)
findPrimeImplicants(minTerms) ==
  LET combined == combineBitDifferences(groupByOnes(minTerms))
  IN IF Len(combined) = 0 THEN minTerms ELSE findPrimeImplicants(combined)

\* every row the prime covers, its "-" positions expanded 0 before 1
RECURSIVE findCoverValues(_)
findCoverValues(prime) ==
  IF prime = <<>> THEN << <<>> >>
  ELSE LET results == findCoverValues(SubSeq(prime, 1, Len(prime) - 1))
           bit == prime[Len(prime)]
       IN IF bit = Dash
          THEN Concat([i \in 1..Len(results) |->
                         << Append(results[i], 0), Append(results[i], 1) >>])
          ELSE [i \in 1..Len(results) |-> Append(results[i], bit)]

Covers(prime, minterm) == Includes(findCoverValues(prime), minterm)

\* the elements of seq, each once, in the order of first occurrence
RECURSIVE Unique(_)
Unique(seq) ==
  IF seq = <<>> THEN <<>>
  ELSE LET init == Unique(SubSeq(seq, 1, Len(seq) - 1))
       IN IF Includes(init, seq[Len(seq)]) THEN init ELSE Append(init, seq[Len(seq)])

findEssentialPrimes(primes, minterms) ==
  LET coverSet(m) == {pIdx \in 0..(Len(primes) - 1) : Covers(primes[pIdx + 1], m)}
      sole(m) == The({ IF Cardinality(s) = 1 THEN <<CHOOSE i \in s : TRUE>> ELSE <<>>
                       : s \in {coverSet(m)} })
  IN The({ [k \in 1..Len(essentialIdxs) |-> primes[essentialIdxs[k] + 1]]
           : essentialIdxs \in {Unique(Concat([k \in 1..Len(minterms) |->
                                                 sole(minterms[k])]))} })

arrayEquals(a, b) == Len(a) = Len(b) /\ \A i \in 1..Len(a) : a[i] = b[i]

\* String(num): the decimal digits
RECURSIVE ToDecimal(_)
ToDecimal(num) == IF num < 10 THEN <<num>> ELSE ToDecimal(num \div 10) \o <<num % 10>>

\* a < b as strings: Array.prototype.sort() without a comparator
StringLess(a, b) ==
  LET x == ToDecimal(a)
      y == ToDecimal(b)
      common == IF Len(x) < Len(y) THEN Len(x) ELSE Len(y)
      differ == {i \in 1..common : x[i] # y[i]}
  IN IF differ = {} THEN Len(x) < Len(y)
     ELSE LET i == CHOOSE j \in differ : \A k \in differ : j <= k IN x[i] < y[i]

\* [...].sort() of distinct numbers
DefaultSort(seq) ==
  LET rank(v) == Cardinality({w \in SeqRange(seq) : StringLess(w, v)})
  IN [i \in 1..Len(seq) |-> CHOOSE v \in SeqRange(seq) : rank(v) = i - 1]

multiplySums(P, Q) ==
  Concat([i \in 1..Len(P) |->
    [j \in 1..Len(Q) |-> DefaultSort(Unique(P[i] \o Q[j]))]])

RECURSIVE SelectFinal(_, _, _)
SelectFinal(final, selectedIndices, allPrimes) ==
  IF selectedIndices = <<>> THEN final
  ELSE LET candidate == allPrimes[Head(selectedIndices) + 1]
           alreadyIncluded == \E k \in 1..Len(final) : arrayEquals(final[k], candidate)
       IN SelectFinal(IF alreadyIncluded THEN final ELSE Append(final, candidate),
                      Tail(selectedIndices), allPrimes)

selectFinalPrimeCover(essentials, selectedIndices, allPrimes) ==
  SelectFinal(essentials, selectedIndices, allPrimes)

MinOf(S) == CHOOSE x \in S : \A y \in S : x <= y

findMinimalPrimeCover(clauses) ==
  LET single(clause) == [k \in 1..Len(clause) |-> <<clause[k]>>]
      M[i \in 1..Len(clauses)] ==
        IF i = 1 THEN single(clauses[1]) ELSE multiplySums(M[i - 1], single(clauses[i]))
  IN The({ The({ SelectSeq(petrick, LAMBDA q : Len(q) = minLength)[1]
                 : minLength \in {MinOf({Len(petrick[k]) : k \in 1..Len(petrick)})} })
           : petrick \in {M[Len(clauses)]} })

buildPrimeCoverMatrix(minterms, primes, essentialPrimes) ==
  [k \in 1..Len(minterms) |->
     Concat([idx \in 1..Len(primes) |->
       IF \E e \in 1..Len(essentialPrimes) : arrayEquals(essentialPrimes[e], primes[idx])
       THEN <<>>
       ELSE IF Covers(primes[idx], minterms[k]) THEN <<idx - 1>> ELSE <<>>])]

getCoveredMintermsFromPrimes(primes) ==
  UNION {SeqRange(findCoverValues(primes[k])) : k \in 1..Len(primes)}

filterUncoveredMinterms(minterms, coveredSet) ==
  SelectSeq(minterms, LAMBDA m : m \notin coveredSet)

\* [primes, err]
petrickMethod(minterms, primes) ==
  The({ The({
      IF Len(uncoveredMinterms) = 0 THEN [primes |-> essentialPrimes, err |-> NoError]
      ELSE The({
        IF \E k \in 1..Len(primeCoverMatrix) : Len(primeCoverMatrix[k]) = 0
        THEN [primes |-> <<>>, err |-> "InfeasibleCover"]
        ELSE [primes |-> selectFinalPrimeCover(essentialPrimes,
                                               findMinimalPrimeCover(primeCoverMatrix),
                                               primes),
              err |-> NoError]
        : primeCoverMatrix \in {buildPrimeCoverMatrix(uncoveredMinterms, primes,
                                                      essentialPrimes)} })
      : uncoveredMinterms \in {filterUncoveredMinterms(
                                 minterms, getCoveredMintermsFromPrimes(essentialPrimes))} })
    : essentialPrimes \in {findEssentialPrimes(primes, minterms)} })

\* a product term that takes the input of every position that is not 0
RECURSIVE ProductInputsEveryPosition(_, _, _, _)
ProductInputsEveryPosition(st, prime, inputNodes, j) ==
  IF j > Len(prime) THEN [st |-> st, ids |-> <<>>]
  ELSE LET here == IF prime[j] = 0 THEN <<Len(st.nodes) + 1>> ELSE <<inputNodes[j]>>
       IN The({ [st |-> rest.st, ids |-> here \o rest.ids]
                : rest \in {ProductInputsEveryPosition(
                              IF prime[j] = 0
                              THEN AddNode(st, GateNode("NOT", <<inputNodes[j]>>, 0))
                              ELSE st,
                              prime, inputNodes, j + 1)} })

\* one product term: the AND of the (negated) inputs of the prime's fixed
\* positions; inputNodes[j + 1] is the InputNode of index j.  [st, id]
RECURSIVE ProductInputs(_, _, _, _)
ProductInputs(st, prime, inputNodes, j) ==
  IF j > Len(prime) THEN [st |-> st, ids |-> <<>>]
  ELSE LET here == IF prime[j] = 0 THEN <<Len(st.nodes) + 1>>
                   ELSE IF prime[j] = 1 THEN <<inputNodes[j]>> ELSE <<>>
       IN The({ [st |-> rest.st, ids |-> here \o rest.ids]
                : rest \in {ProductInputs(IF prime[j] = 0
                                          THEN AddNode(st, GateNode("NOT", <<inputNodes[j]>>, 0))
                                          ELSE st,
                                          prime, inputNodes, j + 1)} })

ProductTerm(st, prime, inputNodes) ==
  The({ IF Len(p.ids) = 1 THEN [st |-> p.st, id |-> p.ids[1]]
        ELSE [st |-> AddNode(p.st, GateNode("AND", p.ids, 0)), id |-> Len(p.st.nodes) + 1]
        : p \in {ProductInputs(st, prime, inputNodes, 1)} })

\* the sum-of-products graph of one lane.  [st, id]
SumOfProducts(st, bestPrimes, width) ==
  LET inputNodes == [i \in 1..width |-> Len(st.nodes) + i]
      A[k \in 0..Len(bestPrimes)] ==
        IF k = 0
        THEN [st |-> [st EXCEPT !.nodes = @ \o [i \in 1..width |-> InputNode(i - 1)]],
              ids |-> <<>>]
        ELSE The({ The({ [st |-> t.st, ids |-> Append(prev.ids, t.id)]
                         : t \in {ProductTerm(prev.st, bestPrimes[k], inputNodes)} })
                   : prev \in {A[k - 1]} })
  IN The({ IF Len(andGates.ids) = 1 THEN [st |-> andGates.st, id |-> andGates.ids[1]]
           ELSE [st |-> AddNode(andGates.st, GateNode("OR", andGates.ids, 0)),
                 id |-> Len(andGates.st.nodes) + 1]
           : andGates \in {A[Len(bestPrimes)]} })

\* the body of the loop of simplify for output lane i (0-based).  [st, id]
SimplifyLane(st, c, i) ==
  The({
    IF Failed(tt.st) THEN [st |-> tt.st, id |-> Null]
    ELSE The({
      IF Len(minterms) = 0
      THEN [st |-> AddNode(tt.st, LiteralNode(0)), id |-> Len(tt.st.nodes) + 1]
      ELSE IF Len(minterms) = 2 ^ inputLength(tt.st, c)
      THEN [st |-> AddNode(tt.st, LiteralNode(1)), id |-> Len(tt.st.nodes) + 1]
      ELSE The({ IF best.err # NoError THEN [st |-> Throw(tt.st, best.err), id |-> Null]
                 ELSE SumOfProducts(tt.st, best.primes, inputLength(tt.st, c))
                 : best \in {petrickMethod(minterms, findPrimeImplicants(minterms))} })
      : minterms \in {generateMinterms(tt.table, i)} })
    : tt \in {generateTruthTable(st, c, NullLevel)} })

\* Circuit.simplify().  [st, id]
simplify(st, c) ==
  LET L[i \in 0..outputLength(st, c)] ==
        IF i = 0 THEN [st |-> st, ids |-> <<>>]
        ELSE The({ IF Failed(prev.st) THEN prev
                   ELSE The({ [st |-> r.st, ids |-> Append(prev.ids, r.id)]
                              : r \in {SimplifyLane(prev.st, c, i - 1)} })
                   : prev \in {L[i - 1]} })
      reg == [g \in {"AND", "OR", "NOT"} |-> StdGate(g)]
  IN The({ IF Failed(lanes.st) THEN [st |-> lanes.st, id |-> Null]
           ELSE [st |-> AddCircuit(lanes.st,
                                   [NewCircuit(lanes.ids) EXCEPT !.gateRegistry = reg]),
                 id |-> Len(lanes.st.circuits) + 1]
           : lanes \in {L[outputLength(st, c)]} })

(***************************************************************************)
(* The circuits the simulation is run on.  Each builder is a client        *)
(* program: it constructs nodes, wraps them in a Circuit and registers     *)
(* gates and feedback nodes; [st, id] is the heap and the built Circuit.   *)
(***************************************************************************)
Built(st, rootNodes, registry, feedbacks) ==
  LET s1 == AddCircuit(st, [NewCircuit(rootNodes) EXCEPT !.gateRegistry = registry])
      c  == LastCircuit(s1)
      R[i \in 0..Len(feedbacks)] ==
        IF i = 0 THEN s1 ELSE registerFeedbackNode(R[i - 1], c, feedbacks[i])
  IN [st |-> R[Len(feedbacks)], id |-> c]

\* a NOT gate with delay 1 driving a Feedback node with delay 1
BuildDelay(st) ==
  LET b  == Len(st.nodes)
      s1 == [st EXCEPT !.nodes = @ \o << InputNode(0),
                                         GateNode("NOT", <<b + 1>>, 1),
                                         FeedbackNode(b + 2, 0, 1) >>]
  IN Built(s1, <<b + 2, b + 3>>, StandardRegistry, <<b + 3>>)

\* two zero-delay Feedback nodes in a chain: F1 = Input[0], F2 = F1
BuildChain(st) ==
  LET b  == Len(st.nodes)
      s1 == [st EXCEPT !.nodes = @ \o << InputNode(0),
                                         FeedbackNode(b + 1, 0, 0),
                                         FeedbackNode(b + 2, 0, 0) >>]
  IN Built(s1, <<b + 3>>, StandardRegistry, <<b + 2, b + 3>>)

\* a zero-delay Feedback node driven by the NOT of itself
BuildOscillator(st) ==
  LET b  == Len(st.nodes)
      s1 == [st EXCEPT !.nodes = @ \o << FeedbackNode(b + 2, 0, 0),
                                         GateNode("NOT", <<b + 1>>, 0) >>]
  IN Built(s1, <<b + 1>>, StandardRegistry, <<b + 1>>)

\* createDFlipFlop(0)
createDFlipFlop(st) ==
  LET b  == Len(st.nodes)
      D  == b + 1
      CLK == b + 2
      Q  == b + 3
      prevCLK == b + 4
      notPrev == b + 5
      risingEdge == b + 6
      captureD == b + 7
      notEdge == b + 8
      holdQ == b + 9
      nextQ == b + 10
      qNot == b + 11
      s1 == [st EXCEPT !.nodes = @ \o << InputNode(0),
                                         ClockNode,
                                         FeedbackNode(nextQ, 0, 0),
                                         FeedbackNode(CLK, 0, 0),
                                         GateNode("NOT", <<prevCLK>>, 0),
                                         GateNode("AND", <<CLK, notPrev>>, 0),
                                         GateNode("AND", <<risingEdge, D>>, 0),
                                         GateNode("NOT", <<risingEdge>>, 0),
                                         GateNode("AND", <<notEdge, Q>>, 0),
                                         GateNode("OR", <<captureD, holdQ>>, 0),
                                         GateNode("NOT", <<Q>>, 0) >>]
      reg == [g \in {"AND", "OR", "NOT"} |-> StdGate(g)]
  IN Built(s1, <<Q, qNot>>, reg, <<Q, prevCLK>>)

\* the template of the composite circuits: a sticky latch Q = Input[0] OR Q
BuildLatch(st) ==
  LET b  == Len(st.nodes)
      s1 == [st EXCEPT !.nodes = @ \o << InputNode(0),
                                         FeedbackNode(b + 3, 0, 0),
                                         GateNode("OR", <<b + 1, b + 2>>, 0) >>]
  IN Built(s1, <<b + 2>>, StandardRegistry, <<b + 2>>)

\* two Composite placements of one latch template, as createFullAdder
\* places one half-adder template twice
BuildPair(st) ==
  LET t   == BuildLatch(st)
      b   == Len(t.st.nodes)
      s1  == [t.st EXCEPT !.nodes = @ \o << InputNode(0), InputNode(1) >>]
      c1  == CompositeConstructor(s1, t.id, <<b + 1>>)
      c2  == CompositeConstructor(c1.st, t.id, <<b + 2>>)
      s2  == AddNode(c2.st, SubCircuitOutputNode(c1.id, 0))
      s3  == AddNode(s2, SubCircuitOutputNode(c2.id, 0))
  IN Built(s3, <<LastNode(s2), LastNode(s3)>>, [g \in {} |-> StdGate(g)], <<>>)

\* the template of the loop: Output[0] = NOT Input[0]
BuildInverter(st) ==
  LET b  == Len(st.nodes)
      s1 == [st EXCEPT !.nodes = @ \o << InputNode(0), GateNode("NOT", <<b + 1>>, 0) >>]
  IN Built(s1, <<b + 2>>, StandardRegistry, <<>>)

\* a feedback cycle through a Composite: F = Inverter(F)[0], Output[0] = F's driver
BuildLoop(st) ==
  LET t  == BuildInverter(st)
      s1 == AddNode(t.st, FeedbackNode(Null, 0, 0))
      F  == LastNode(s1)
      c  == CompositeConstructor(s1, t.id, <<F>>)
      s2 == AddNode(c.st, SubCircuitOutputNode(c.id, 0))
      S  == LastNode(s2)
      s3 == [s2 EXCEPT !.nodes[F].inputNode = S]
  IN Built(s3, <<S>>, [g \in {} |-> StdGate(g)], <<F>>)

Topologies == {"delay", "chain", "oscillator", "dff", "pair", "loop"}

Build(st, t) ==
  CASE t = "delay" -> BuildDelay(st)
    [] t = "chain" -> BuildChain(st)
    [] t = "oscillator" -> BuildOscillator(st)
    [] t = "dff" -> createDFlipFlop(st)
    [] t = "pair" -> BuildPair(st)
    [] t = "loop" -> BuildLoop(st)

(***************************************************************************)
(* The example library (public/examples): adders, multiplexers, decoder,   *)
(* flip-flops and the counter, built node for node as the factories do.    *)
(***************************************************************************)
Registry(names) == [g \in names |-> StdGate(g)]

\* createHalfAdder(delay): Sum = A XOR B, Carry = A AND B
createHalfAdder(st, delay) ==
  LET b   == Len(st.nodes)
      A   == b + 1
      B   == b + 2
      Sum == b + 3
      Carry == b + 4
      s1  == [st EXCEPT !.nodes = @ \o << InputNode(0),
                                          InputNode(1),
                                          GateNode("XOR", <<A, B>>, delay),
                                          GateNode("AND", <<A, B>>, delay) >>]
  IN Built(s1, <<Sum, Carry>>, Registry({"XOR", "AND"}), <<>>)

\* the three InputNode objects A, B, Cin of createFullAdder
FullAdderInputs(st) ==
  [st EXCEPT !.nodes = @ \o << InputNode(0), InputNode(1), InputNode(2) >>]

\* a CompositeNode and the SubCircuitOutputNodes 0 and 1 that read it
\* (the Composite is node id, the two outputs are id + 1 and id + 2)
PlaceWithOutputs(st, subCircuit, inputNodes) ==
  The({ [st |-> AddNode(AddNode(k.st, SubCircuitOutputNode(k.id, 0)),
                        SubCircuitOutputNode(k.id, 1)),
         id |-> k.id]
        : k \in {CompositeConstructor(st, subCircuit, inputNodes)} })

\* createFullAdder(delay): two placements of one half-adder template and
\* an OR of the two carries
createFullAdder(st, delay) ==
  The({ The({ The({
      Built(AddNode(h2.st, GateNode("OR", <<h1.id + 2, h2.id + 2>>, delay)),
            <<h2.id + 1, h2.id + 3>>, Registry({"OR"}), <<>>)
      : h2 \in {PlaceWithOutputs(h1.st, t.id, <<h1.id + 1, Len(t.st.nodes) + 3>>)} })
    : h1 \in {PlaceWithOutputs(FullAdderInputs(t.st), t.id,
                               <<Len(t.st.nodes) + 1, Len(t.st.nodes) + 2>>)} })
  : t \in {createHalfAdder(st, delay)} })

\* new InputNode(0) .. new InputNode(8) of create4BitRippleCarryAdder
RippleInputs(st) ==
  [st EXCEPT !.nodes = @ \o [k \in 1..9 |-> InputNode(k - 1)]]

\* create4BitRippleCarryAdder(delay): four placements of one full-adder
\* template, each carry-in read from the previous placement's output 1
create4BitRippleCarryAdder(st, delay) ==
  The({ The({ The({ The({ The({
      Built(a3.st, <<a0.id + 1, a1.id + 1, a2.id + 1, a3.id + 1, a3.id + 2>>,
            Registry({}), <<>>)
      : a3 \in {PlaceWithOutputs(a2.st, t.id,
                  <<Len(t.st.nodes) + 4, Len(t.st.nodes) + 8, a2.id + 2>>)} })
    : a2 \in {PlaceWithOutputs(a1.st, t.id,
                <<Len(t.st.nodes) + 3, Len(t.st.nodes) + 7, a1.id + 2>>)} })
    : a1 \in {PlaceWithOutputs(a0.st, t.id,
                <<Len(t.st.nodes) + 2, Len(t.st.nodes) + 6, a0.id + 2>>)} })
    : a0 \in {PlaceWithOutputs(RippleInputs(t.st), t.id,
                <<Len(t.st.nodes) + 1, Len(t.st.nodes) + 5, Len(t.st.nodes) + 9>>)} })
  : t \in {createFullAdder(st, delay)} })

\* create2to1Mux(delay): Output = (NOT Sel AND I0) OR (Sel AND I1)
create2to1Mux(st, delay) ==
  LET b  == Len(st.nodes)
      I0 == b + 1
      I1 == b + 2
      Sel == b + 3
      notSel == b + 4
      path0 == b + 5
      path1 == b + 6
      output == b + 7
      s1 == [st EXCEPT !.nodes = @ \o << InputNode(0),
                                         InputNode(1),
                                         InputNode(2),
                                         GateNode("NOT", <<Sel>>, delay),
                                         GateNode("AND", <<notSel, I0>>, delay),
                                         GateNode("AND", <<Sel, I1>>, delay),
                                         GateNode("OR", <<path0, path1>>, delay) >>]
  IN Built(s1, <<output>>, Registry({"AND", "OR", "NOT"}), <<>>)

\* create4to1Mux(delay)
create4to1Mux(st, delay) ==
  LET b  == Len(st.nodes)
      I0 == b + 1
      I1 == b + 2
      I2 == b + 3
      I3 == b + 4
      S0 == b + 5
      S1 == b + 6
      notS1a == b + 7
      notS0a == b + 8
      enable0 == b + 9
      path0 == b + 10
      notS1b == b + 11
      enable1 == b + 12
      path1 == b + 13
      notS0c == b + 14
      enable2 == b + 15
      path2 == b + 16
      enable3 == b + 17
      path3 == b + 18
      temp == b + 19
      temp2 == b + 20
      output == b + 21
      s1 == [st EXCEPT !.nodes = @ \o << InputNode(0), InputNode(1), InputNode(2),
                                         InputNode(3), InputNode(4), InputNode(5),
                                         GateNode("NOT", <<S1>>, delay),
                                         GateNode("NOT", <<S0>>, delay),
                                         GateNode("AND", <<notS1a, notS0a>>, delay),
                                         GateNode("AND", <<enable0, I0>>, delay),
                                         GateNode("NOT", <<S1>>, delay),
                                         GateNode("AND", <<notS1b, S0>>, delay),
                                         GateNode("AND", <<enable1, I1>>, delay),
                                         GateNode("NOT", <<S0>>, delay),
                                         GateNode("AND", <<S1, notS0c>>, delay),
                                         GateNode("AND", <<enable2, I2>>, delay),
                                         GateNode("AND", <<S1, S0>>, delay),
                                         GateNode("AND", <<enable3, I3>>, delay),
                                         GateNode("OR", <<path0, path1>>, delay),
                                         GateNode("OR", <<path2, path3>>, delay),
                                         GateNode("OR", <<temp, temp2>>, delay) >>]
  IN Built(s1, <<output>>, Registry({"AND", "OR", "NOT"}), <<>>)

\* create2to4Decoder(delay): O[k] = 1 iff (I1, I0) encodes k
create2to4Decoder(st, delay) ==
  LET b  == Len(st.nodes)
      I0 == b + 1
      I1 == b + 2
      notI0 == b + 3
      notI1 == b + 4
      s1 == [st EXCEPT !.nodes = @ \o << InputNode(0),
                                         InputNode(1),
                                         GateNode("NOT", <<I0>>, delay),
                                         GateNode("NOT", <<I1>>, delay),
                                         GateNode("AND", <<notI1, notI0>>, delay),
                                         GateNode("AND", <<notI1, I0>>, delay),
                                         GateNode("AND", <<I1, notI0>>, delay),
                                         GateNode("AND", <<I1, I0>>, delay) >>]
  IN Built(s1, <<b + 5, b + 6, b + 7, b + 8>>, Registry({"AND", "NOT"}), <<>>)

\* createTFlipFlop(delay): Q <- Q XOR (risingEdge AND T)
createTFlipFlop(st, delay) ==
  LET b  == Len(st.nodes)
      T  == b + 1
      CLK == b + 2
      Q  == b + 3
      prevCLK == b + 4
      notPrev == b + 5
      risingEdge == b + 6
      toggleSignal == b + 7
      nextQ == b + 8
      s1 == [st EXCEPT !.nodes = @ \o << InputNode(0),
                                         ClockNode,
                                         FeedbackNode(nextQ, 0, delay),
                                         FeedbackNode(CLK, 0, delay),
                                         GateNode("NOT", <<prevCLK>>, delay),
                                         GateNode("AND", <<CLK, notPrev>>, delay),
                                         GateNode("AND", <<risingEdge, T>>, delay),
                                         GateNode("XOR", <<Q, toggleSignal>>, delay) >>]
  IN Built(s1, <<Q>>, Registry({"AND", "NOT", "XOR"}), <<Q, prevCLK>>)

\* createJKFlipFlop(delay)
createJKFlipFlop(st, delay) ==
  LET b  == Len(st.nodes)
      J  == b + 1
      K  == b + 2
      CLK == b + 3
      Q  == b + 4
      prevCLK == b + 5
      notPrev == b + 6
      risingEdge == b + 7
      notQ == b + 8
      trySet == b + 9
      notK == b + 10
      tryHold == b + 11
      nextQValue == b + 12
      update == b + 13
      notEdge == b + 14
      hold == b + 15
      nextQ == b + 16
      qNot == b + 17
      s1 == [st EXCEPT !.nodes = @ \o << InputNode(0),
                                         InputNode(1),
                                         ClockNode,
                                         FeedbackNode(nextQ, 0, delay),
                                         FeedbackNode(CLK, 0, delay),
                                         GateNode("NOT", <<prevCLK>>, delay),
                                         GateNode("AND", <<CLK, notPrev>>, delay),
                                         GateNode("NOT", <<Q>>, delay),
                                         GateNode("AND", <<J, notQ>>, delay),
                                         GateNode("NOT", <<K>>, delay),
                                         GateNode("AND", <<notK, Q>>, delay),
                                         GateNode("OR", <<trySet, tryHold>>, delay),
                                         GateNode("AND", <<risingEdge, nextQValue>>, delay),
                                         GateNode("NOT", <<risingEdge>>, delay),
                                         GateNode("AND", <<notEdge, Q>>, delay),
                                         GateNode("OR", <<update, hold>>, delay),
                                         GateNode("NOT", <<Q>>, delay) >>]
  IN Built(s1, <<Q, qNot>>, Registry({"AND", "OR", "NOT"}), <<Q, prevCLK>>)

\* create4BitCounter(delay): Q[i] <- (Q[i] XOR toggle[i]) AND NOT RESET
create4BitCounter(st, delay) ==
  LET b  == Len(st.nodes)
      ENABLE == b + 1
      RESET == b + 2
      CLK == b + 3
      Q0 == b + 4
      Q1 == b + 5
      Q2 == b + 6
      Q3 == b + 7
      prevCLK == b + 8
      notPrev == b + 9
      risingEdge == b + 10
      countEnable == b + 11
      nextQ0 == b + 12
      toggle1 == b + 13
      nextQ1 == b + 14
      toggle2 == b + 15
      nextQ2 == b + 16
      toggle3 == b + 17
      nextQ3 == b + 18
      s1 == [st EXCEPT !.nodes = @ \o << InputNode(0),
                                         InputNode(1),
                                         ClockNode,
                                         FeedbackNode(b + 20, 0, delay),
                                         FeedbackNode(b + 22, 0, delay),
                                         FeedbackNode(b + 24, 0, delay),
                                         FeedbackNode(b + 26, 0, delay),
                                         FeedbackNode(CLK, 0, delay),
                                         GateNode("NOT", <<prevCLK>>, delay),
                                         GateNode("AND", <<CLK, notPrev>>, delay),
                                         GateNode("AND", <<risingEdge, ENABLE>>, delay),
                                         GateNode("XOR", <<Q0, countEnable>>, delay),
                                         GateNode("AND", <<countEnable, Q0>>, delay),
                                         GateNode("XOR", <<Q1, toggle1>>, delay),
                                         GateNode("AND", <<countEnable, Q0, Q1>>, delay),
                                         GateNode("XOR", <<Q2, toggle2>>, delay),
                                         GateNode("AND", <<countEnable, Q0, Q1, Q2>>, delay),
                                         GateNode("XOR", <<Q3, toggle3>>, delay),
                                         GateNode("NOT", <<RESET>>, delay),
                                         GateNode("AND", <<nextQ0, b + 19>>, delay),
                                         GateNode("NOT", <<RESET>>, delay),
                                         GateNode("AND", <<nextQ1, b + 21>>, delay),
                                         GateNode("NOT", <<RESET>>, delay),
                                         GateNode("AND", <<nextQ2, b + 23>>, delay),
                                         GateNode("NOT", <<RESET>>, delay),
                                         GateNode("AND", <<nextQ3, b + 25>>, delay) >>]
  IN Built(s1, <<Q0, Q1, Q2, Q3>>, Registry({"AND", "OR", "NOT", "XOR"}),
           <<Q0, Q1, Q2, Q3, prevCLK>>)

(***************************************************************************)
(* What a circuit owns: the nodes reachable from its roots and feedback    *)
(* list, through the sub-circuits of its Composite nodes.                  *)
(***************************************************************************)

NodeRefs(st, n) ==
  LET node == st.nodes[n]
  IN (SeqRange(node.inputNodes) \cup {node.inputNode, node.compositeNode}) \ {Null}

\* the references the graph walk of clone follows: structure inside one circuit
RECURSIVE Closure(_, _, _)
Closure(st, frontier, seen) ==
  IF frontier = {} THEN seen
  ELSE LET next == UNION {NodeRefs(st, n) : n \in frontier} \ (seen \cup frontier)
       IN Closure(st, next, seen \cup frontier)

CircuitRefs(st, c) ==
  SeqRange(st.circuits[c].rootNodes) \cup SeqRange(st.circuits[c].feedbackNodes)

GraphNodes(st, c) == Closure(st, CircuitRefs(st, c) \ {Null}, {})

RECURSIVE OwnedCircuits(_, _)
OwnedCircuits(st, c) ==
  {c} \cup UNION {OwnedCircuits(st, st.nodes[n].subCircuit) :
                    n \in {m \in GraphNodes(st, c) : st.nodes[m].kind = "Composite"}}

OwnedNodes(st, c) == UNION {GraphNodes(st, k) : k \in OwnedCircuits(st, c)}

\* the mutable and immutable state of everything circuit c owns
StateOf(st, c) ==
  [nodes    |-> [n \in OwnedNodes(st, c) |-> st.nodes[n]],
   circuits |-> [k \in OwnedCircuits(st, c) |-> st.circuits[k]]]

(***************************************************************************)
(* The simulation: a client builds one circuit (main), drives it with      *)
(* setClock and tick, may clone it once (fork) and then drives the         *)
(* original and the clone, together or apart.  After clone(false) a        *)
(* freshly built circuit of the same topology (fresh) is driven together   *)
(* with the clone.                                                         *)
(***************************************************************************)
MaxSteps == 4

Heap == [nodes |-> nodes, circuits |-> circuits, err |-> NoError]

Handle(h) == CASE h = "main" -> main [] h = "fork" -> fork [] h = "fresh" -> fresh

Rows(n) == [1..n -> Bits]

NoOutputs == [h \in {"main", "fork", "fresh"} |-> <<>>]

TargetSets ==
  CASE forkKind = "none"  -> {{"main"}}
    [] forkKind = "true"  -> {{"main"}, {"fork"}, {"main", "fork"}}
    [] forkKind = "false" -> {{"main"}, {"fork", "fresh"}}

\* the circuits driven in lock-step since the clone
Paired == IF forkKind = "true" THEN {"main", "fork"} ELSE {"fork", "fresh"}

HasClock(st, c) == \E n \in OwnedNodes(st, c) : st.nodes[n].kind = "Clock"

Init ==
  /\ topo \in Topologies
  /\ LET b == Build(EmptyHeap, topo)
     IN /\ nodes = b.st.nodes
        /\ circuits = b.st.circuits
        /\ main = b.id
  /\ fork = Null
  /\ fresh = Null
  /\ forkKind = "none"
  /\ cloneMap = EmptyMap
  /\ lastOp = [op |-> "build", targets |-> {}, inputs |-> <<>>]
  /\ outs = NoOutputs
  /\ inSync = TRUE
  /\ steps = 0
  /\ lastError = NoError
  /\ log = <<>>
  /\ result = NoResult

\* tick(inputs) on every circuit of T, the original first
Tick(T, inputs) ==
  /\ steps < MaxSteps
  /\ \E r1 \in {IF "main" \in T THEN tick(Heap, main, inputs) ELSE Ret(Heap, outs["main"])} :
     \E r2 \in {IF "fork" \in T THEN tick(r1.st, fork, inputs) ELSE Ret(r1.st, outs["fork"])} :
     \E r3 \in {IF "fresh" \in T THEN tick(r2.st, fresh, inputs) ELSE Ret(r2.st, outs["fresh"])} :
        /\ nodes' = r3.st.nodes
        /\ circuits' = r3.st.circuits
        /\ lastError' = r3.st.err
        /\ outs' = [h \in DOMAIN outs |->
                      CASE h = "main" -> r1.val [] h = "fork" -> r2.val [] h = "fresh" -> r3.val]
  /\ lastOp' = [op |-> "tick", targets |-> T, inputs |-> inputs]
  /\ inSync' = (inSync /\ (T \cap Paired = {} \/ T = Paired))
  /\ steps' = steps + 1
  /\ UNCHANGED <<topo, main, fork, fresh, forkKind, cloneMap, log, result>>

\* setClock(value) on every circuit of T
SetClock(T, value) ==
  /\ steps < MaxSteps
  /\ HasClock(Heap, main)
  /\ LET s1 == IF "main" \in T THEN setClock(Heap, main, value) ELSE Heap
         s2 == IF "fork" \in T THEN setClock(s1, fork, value) ELSE s1
         s3 == IF "fresh" \in T THEN setClock(s2, fresh, value) ELSE s2
     IN /\ nodes' = s3.nodes
        /\ circuits' = s3.circuits
  /\ lastOp' = [op |-> "setClock", targets |-> T, inputs |-> <<value>>]
  /\ inSync' = (inSync /\ (T \cap Paired = {} \/ T = Paired))
  /\ steps' = steps + 1
  /\ UNCHANGED <<topo, main, fork, fresh, forkKind, cloneMap, outs, lastError, log, result>>

\* fork = main.clone(true)
CloneTrue ==
  /\ steps < MaxSteps
  /\ forkKind = "none"
  /\ \E r \in {clone(Heap, main, TRUE)} :
        /\ nodes' = r.st.nodes
        /\ circuits' = r.st.circuits
        /\ lastError' = r.st.err
        /\ fork' = r.id
        /\ cloneMap' = r.map
  /\ forkKind' = "true"
  /\ lastOp' = [op |-> "clone", targets |-> {}, inputs |-> <<>>]
  /\ inSync' = TRUE
  /\ steps' = steps + 1
  /\ UNCHANGED <<topo, main, fresh, outs, log, result>>

\* fork = main.clone(false), and fresh = the same topology built anew
CloneFalse ==
  /\ steps < MaxSteps
  /\ forkKind = "none"
  /\ \E r \in {clone(Heap, main, FALSE)} :
     \E b \in {Build(r.st, topo)} :
        /\ nodes' = b.st.nodes
        /\ circuits' = b.st.circuits
        /\ lastError' = b.st.err
        /\ fork' = r.id
        /\ fresh' = b.id
        /\ cloneMap' = r.map
  /\ forkKind' = "false"
  /\ lastOp' = [op |-> "clone", targets |-> {}, inputs |-> <<>>]
  /\ inSync' = TRUE
  /\ steps' = steps + 1
  /\ UNCHANGED <<topo, main, outs, log, result>>

Next ==
  \/ \E T \in TargetSets : \E x \in Rows(inputLength(Heap, main)) : Tick(T, x)
  \/ \E T \in TargetSets : \E v \in Bits : SetClock(T, v)
  \/ CloneTrue
  \/ CloneFalse

Spec == Init /\ [][Next]_vars

(***************************************************************************)
(* The minimizer run on combinational circuits: every function of up to    *)
(* three inputs as a one-output circuit, and every pair of functions of up *)
(* to two inputs as a two-output circuit.  main is the original circuit,   *)
(* fork the circuit simplify() returned.                                   *)
(***************************************************************************)
InputWidths == 0..3

PairWidths == 0..2

MaxRows == 1

LaneName(k) == <<"F1", "F2">>[k]

\* the output lanes of a circuit: one set of rows mapped to 1 per lane
LaneChoices(n) ==
  {<<f>> : f \in SUBSET Rows(n)}
    \cup (IF n \in PairWidths
          THEN {<<f, g>> : f \in SUBSET Rows(n), g \in SUBSET Rows(n)} ELSE {})

\* one zero-delay gate per lane over the InputNodes 0..n-1
BuildTable(st, n, lanes) ==
  LET b == Len(st.nodes)
      registry == [g \in {LaneName(k) : k \in 1..Len(lanes)} |->
                     TableGate(lanes[CHOOSE k \in 1..Len(lanes) : LaneName(k) = g])]
  IN Built([st EXCEPT !.nodes = @ \o [i \in 1..n |-> InputNode(i - 1)]
                                  \o [k \in 1..Len(lanes) |->
                                        GateNode(LaneName(k), [i \in 1..n |-> b + i], 0)]],
           [k \in 1..Len(lanes) |-> b + n + k], registry, <<>>)

InitQM ==
  /\ topo = "table"
  /\ \E n \in InputWidths : \E lanes \in LaneChoices(n) :
       LET b == BuildTable(EmptyHeap, n, lanes)
       IN /\ nodes = b.st.nodes
          /\ circuits = b.st.circuits
          /\ main = b.id
  /\ fork = Null
  /\ fresh = Null
  /\ forkKind = "none"
  /\ cloneMap = EmptyMap
  /\ lastOp = [op |-> "build", targets |-> {}, inputs |-> <<>>]
  /\ outs = NoOutputs
  /\ inSync = TRUE
  /\ steps = 0
  /\ lastError = NoError
  /\ log = <<>>
  /\ result = NoResult

\* fork = main.simplify()
Simplify ==
  /\ forkKind = "none"
  /\ \E r \in {simplify(Heap, main)} :
        /\ nodes' = r.st.nodes
        /\ circuits' = r.st.circuits
        /\ lastError' = r.st.err
        /\ fork' = r.id
        /\ forkKind' = IF Failed(r.st) THEN "failed" ELSE "simplified"
  /\ lastOp' = [op |-> "simplify", targets |-> {}, inputs |-> <<>>]
  /\ steps' = steps + 1
  /\ UNCHANGED <<topo, main, fresh, cloneMap, outs, inSync, log, result>>

\* evaluate(inputs) on the original and on the simplified circuit
EvaluateRow(inputs) ==
  /\ forkKind = "simplified"
  /\ steps <= MaxRows
  /\ \E r1 \in {CircuitEvaluate(Heap, main, inputs, DefaultMaxDeltaCycles)} :
       \E r2 \in {CircuitEvaluate(r1.st, fork, inputs, DefaultMaxDeltaCycles)} :
          /\ nodes' = r2.st.nodes
          /\ circuits' = r2.st.circuits
          /\ lastError' = r2.st.err
          /\ outs' = [outs EXCEPT !["main"] = r1.val, !["fork"] = r2.val]
  /\ lastOp' = [op |-> "evaluate", targets |-> {"main", "fork"}, inputs |-> inputs]
  /\ steps' = steps + 1
  /\ UNCHANGED <<topo, main, fork, fresh, forkKind, cloneMap, inSync, log, result>>

NextQM ==
  \/ Simplify
  \/ \E x \in Rows(inputLength(Heap, main)) : EvaluateRow(x)

SpecQM == InitQM /\ [][NextQM]_vars

(***************************************************************************)
(* Driving one circuit of the example library through its public API:      *)
(* tick(inputs) and setClock(value) on `main`.  `log` keeps the clock and  *)
(* the inputs of the latest ticks of `main`, the newest last.              *)
(***************************************************************************)
LastOf(seq, k) == SubSeq(seq, Max(1, Len(seq) - k + 1), Len(seq))

LogEntry(clock, inputs) == [clock |-> clock, inputs |-> inputs]

\* main.tick(inputs); at most `bound` operations, `window` log entries kept
Drive(inputs, bound, window) ==
  /\ steps < bound
  /\ \E r \in {tick(Heap, main, inputs)} :
        /\ nodes' = r.st.nodes
        /\ circuits' = r.st.circuits
        /\ lastError' = r.st.err
        /\ outs' = [outs EXCEPT !["main"] = r.val]
  /\ lastOp' = [op |-> "tick", targets |-> {"main"}, inputs |-> inputs]
  /\ log' = LastOf(Append(log, LogEntry(circuits[main].clock, inputs)), window)
  /\ steps' = steps + 1
  /\ UNCHANGED <<topo, main, fork, fresh, forkKind, cloneMap, inSync, result>>

\* main.setClock(value)
Clock(value, bound) ==
  /\ steps < bound
  /\ \E s \in {setClock(Heap, main, value)} :
        /\ nodes' = s.nodes
        /\ circuits' = s.circuits
  /\ lastOp' = [op |-> "setClock", targets |-> {"main"}, inputs |-> <<value>>]
  /\ steps' = steps + 1
  /\ UNCHANGED <<topo, main, fork, fresh, forkKind, cloneMap, outs, inSync,
                 lastError, log, result>>

\* the state after construction of `main`
Constructed(b) ==
  /\ nodes = b.st.nodes
  /\ circuits = b.st.circuits
  /\ main = b.id
  /\ fork = Null
  /\ fresh = Null
  /\ forkKind = "none"
  /\ cloneMap = EmptyMap
  /\ lastOp = [op |-> "build", targets |-> {}, inputs |-> <<>>]
  /\ outs = NoOutputs
  /\ inSync = TRUE
  /\ steps = 0
  /\ lastError = NoError

(***************************************************************************)
(* SpecLib: the combinational examples, the adders also with gate delays.  *)
(***************************************************************************)
MaxLibTicks == 2

MaxDelay == 2

LibTopologies ==
  {"halfAdder", "fullAdder", "rippleAdder", "mux2", "mux4", "decoder"}

DelayedTopologies == {"fullAdderDelayed"}

BuildLib(st, t, delay) ==
  CASE t = "halfAdder" -> createHalfAdder(st, delay)
    [] t \in {"fullAdder", "fullAdderDelayed"} -> createFullAdder(st, delay)
    [] t = "rippleAdder" -> create4BitRippleCarryAdder(st, delay)
    [] t = "mux2" -> create2to1Mux(st, delay)
    [] t = "mux4" -> create4to1Mux(st, delay)
    [] t = "decoder" -> create2to4Decoder(st, delay)

\* a row of 9 bits from the two operands and the carry-in
RippleRow(a, b, cin) ==
  [k \in 1..9 |-> IF k <= 4 THEN (a \div (2 ^ (k - 1))) % 2
                  ELSE IF k <= 8 THEN (b \div (2 ^ (k - 5))) % 2
                  ELSE cin]

\* the rows that may be followed by further ticks of the ripple-carry adder
RippleSamples == {RippleRow(0, 0, 0), RippleRow(15, 15, 1), RippleRow(5, 10, 1)}

\* every row; for the 512-row ripple-carry adder every row once the rows
\* ticked before are sample rows
LibRows ==
  IF topo = "rippleAdder" /\ lastOp.op = "tick" /\ lastOp.inputs \notin RippleSamples
  THEN {}
  ELSE Rows(inputLength(Heap, main))

InitLib ==
  /\ \/ /\ topo \in LibTopologies
        /\ Constructed(BuildLib(EmptyHeap, topo, 0))
     \/ /\ topo \in DelayedTopologies
        /\ \E d \in 1..MaxDelay : Constructed(BuildLib(EmptyHeap, topo, d))
  /\ log = <<>>
  /\ result = NoResult

NextLib == \E x \in LibRows : Drive(x, MaxLibTicks, 0)

SpecLib == InitLib /\ [][NextLib]_vars

(***************************************************************************)
(* SpecSeq: the clocked examples.  The counter is first brought to any     *)
(* count by that many clock pulses with ENABLE = 1.                        *)
(***************************************************************************)
MaxSeqSteps == 8

MaxCounterSteps == 4

SeqTopologies == {"dff", "tff", "jkff", "counter"}

BuildSeq(st, t) ==
  CASE t = "dff" -> createDFlipFlop(st)
    [] t = "tff" -> createTFlipFlop(st, 0)
    [] t = "jkff" -> createJKFlipFlop(st, 0)
    [] t = "counter" -> create4BitCounter(st, 0)

MaxPulses == 15

\* setClock(0); tick([1, 0]); setClock(1); tick([1, 0])
CountPulse(st, c) ==
  The({ tick(setClock(low.st, c, 1), c, <<1, 0>>)
        : low \in {tick(setClock(st, c, 0), c, <<1, 0>>)} })

SeqBound == IF topo = "counter" THEN MaxCounterSteps ELSE MaxSeqSteps

InitSeq ==
  /\ topo \in SeqTopologies
  /\ Constructed(BuildSeq(EmptyHeap, topo))
  /\ log = <<>>
  /\ result = NoResult

\* one clock pulse with ENABLE = 1 on the counter, before anything else is
\* done to it: the counter reaches every count
Pulse ==
  /\ topo = "counter"
  /\ steps = 0
  /\ circuits[main].totalTicks < 2 * MaxPulses
  /\ \E r \in {CountPulse(Heap, main)} :
        /\ nodes' = r.st.nodes
        /\ circuits' = r.st.circuits
        /\ lastError' = r.st.err
        /\ outs' = [outs EXCEPT !["main"] = r.val]
  /\ lastOp' = [op |-> "tick", targets |-> {"main"}, inputs |-> <<1, 0>>]
  /\ log' = <<LogEntry(0, <<1, 0>>), LogEntry(1, <<1, 0>>)>>
  /\ UNCHANGED <<topo, main, fork, fresh, forkKind, cloneMap, inSync, steps, result>>

NextSeq ==
  \/ \E x \in Rows(inputLength(Heap, main)) : Drive(x, SeqBound, 2)
  \/ \E v \in Bits : Clock(v, SeqBound)
  \/ Pulse

SpecSeq == InitSeq /\ [][NextSeq]_vars

(***************************************************************************)
(* SpecDelay: gates with a propagation delay, ticked every tick.  `log`    *)
(* keeps the inputs of every tick.                                         *)
(***************************************************************************)
MaxDelayTicks == 5

\* Output[0] = NOT Input[0], after `delay` ticks
BuildNot(st, delay) ==
  LET b  == Len(st.nodes)
      s1 == [st EXCEPT !.nodes = @ \o << InputNode(0), GateNode("NOT", <<b + 1>>, delay) >>]
  IN Built(s1, <<b + 2>>, StandardRegistry, <<>>)

\* two delayed gates in series: Output[0] = NOT (Input[0] AND Input[1]);
\* Output[1] is the inner gate
BuildGateChain(st, delay) ==
  LET b  == Len(st.nodes)
      s1 == [st EXCEPT !.nodes = @ \o << InputNode(0),
                                         InputNode(1),
                                         GateNode("AND", <<b + 1, b + 2>>, delay),
                                         GateNode("NOT", <<b + 3>>, delay) >>]
  IN Built(s1, <<b + 4, b + 3>>, StandardRegistry, <<>>)

DelayTopologies == {"not", "gateChain", "halfAdder", "delay"}

BuildDelayed(st, t, delay) ==
  CASE t = "not" -> BuildNot(st, delay)
    [] t = "gateChain" -> BuildGateChain(st, delay)
    [] t = "halfAdder" -> createHalfAdder(st, delay)
    [] t = "delay" -> BuildDelay(st)

InitDelay ==
  /\ topo \in DelayTopologies
  /\ \E d \in 1..MaxDelay : Constructed(BuildDelayed(EmptyHeap, topo, d))
  /\ log = <<>>
  /\ result = NoResult

NextDelay == \E x \in Rows(inputLength(Heap, main)) : Drive(x, MaxDelayTicks, MaxDelayTicks)

SpecDelay == InitDelay /\ [][NextDelay]_vars

(***************************************************************************)
(* SpecApi: the calls of a Circuit with their optional arguments:          *)
(* evaluate(inputs, maxDeltaCycles), evaluateUntilStable(inputs, maxOuter) *)
(* and setClock(value), on circuits that settle, circuits that oscillate   *)
(* and circuits with a gate that was never registered.                     *)
(***************************************************************************)
MaxApiSteps == 3

\* the caps passed as maxDeltaCycles
MaxCap == 2

\* the caps passed as maxOuter
MaxOuterCap == 4

\* Output[0] = NAND(Input[0], Input[0]) in a circuit that registered only
\* AND, OR, NOT and XOR
BuildUnregistered(st) ==
  LET b  == Len(st.nodes)
      s1 == [st EXCEPT !.nodes = @ \o << InputNode(0),
                                         GateNode("NAND", <<b + 1, b + 1>>, 0) >>]
  IN Built(s1, <<b + 2>>, StandardRegistry, <<>>)

\* Q = Feedback(NAND(Input[0], Q)) with root Q: the unregistered gate is
\* reached through the driving expression only
BuildUnregisteredDriver(st) ==
  LET b  == Len(st.nodes)
      s1 == [st EXCEPT !.nodes = @ \o << InputNode(0),
                                         FeedbackNode(b + 3, 0, 0),
                                         GateNode("NAND", <<b + 1, b + 2>>, 0) >>]
  IN Built(s1, <<b + 2>>, StandardRegistry, <<b + 2>>)

\* Output[0] = T(Input[0])[0], T being the circuit with the unregistered
\* gate: the gate is evaluated by the private copy of T inside the Composite
BuildUnregisteredInside(st) ==
  The({ The({ Built(AddNode(c.st, SubCircuitOutputNode(c.id, 0)),
                    <<c.id + 1>>, StandardRegistry, <<>>)
              : c \in {CompositeConstructor(AddNode(t.st, InputNode(0)), t.id,
                                            <<Len(t.st.nodes) + 1>>)} })
        : t \in {BuildUnregistered(st)} })

UnregisteredTopologies == {"unregistered", "unregisteredDriver", "unregisteredInside"}

ApiTopologies ==
  {"delay", "chain", "oscillator", "dff", "pair"} \cup UnregisteredTopologies

\* the circuits whose client calls setClock: the flip-flop reads the clock,
\* the delay circuit holds scheduled events while the clock is set
ClockedTopologies == {"dff", "delay"}

BuildApi(st, t) ==
  CASE t = "unregistered" -> BuildUnregistered(st)
    [] t = "unregisteredDriver" -> BuildUnregisteredDriver(st)
    [] t = "unregisteredInside" -> BuildUnregisteredInside(st)
    [] OTHER -> Build(st, t)

InitApi ==
  /\ topo \in ApiTopologies
  /\ Constructed(BuildApi(EmptyHeap, topo))
  /\ log = <<>>
  /\ result = NoResult

\* main.evaluate(inputs, maxDeltaCycles)
Evaluate(inputs, maxDeltaCycles) ==
  /\ steps < MaxApiSteps
  /\ \E r \in {CircuitEvaluate(Heap, main, inputs, maxDeltaCycles)} :
        /\ nodes' = r.st.nodes
        /\ circuits' = r.st.circuits
        /\ lastError' = r.st.err
        /\ outs' = [outs EXCEPT !["main"] = r.val]
  /\ lastOp' = [op |-> "evaluate", targets |-> {"main"}, inputs |-> inputs]
  /\ result' = [op |-> "evaluate", cap |-> maxDeltaCycles,
                cycles |-> DeltaCycles(Heap, main, inputs, maxDeltaCycles)]
  /\ steps' = steps + 1
  /\ UNCHANGED <<topo, main, fork, fresh, forkKind, cloneMap, inSync, log>>

\* main.evaluateUntilStable(inputs, maxOuter)
UntilStable(inputs, maxOuter) ==
  /\ steps < MaxApiSteps
  /\ \E r \in {evaluateUntilStable(Heap, main, inputs, maxOuter)} :
        /\ nodes' = r.st.nodes
        /\ circuits' = r.st.circuits
        /\ lastError' = r.st.err
        /\ outs' = [outs EXCEPT !["main"] = r.val]
  /\ lastOp' = [op |-> "evaluateUntilStable", targets |-> {"main"}, inputs |-> inputs]
  /\ result' = [op |-> "evaluateUntilStable", cap |-> maxOuter]
  /\ steps' = steps + 1
  /\ UNCHANGED <<topo, main, fork, fresh, forkKind, cloneMap, inSync, log>>

NextApi ==
  \/ \E x \in Rows(inputLength(Heap, main)) : \E cap \in 1..MaxCap : Evaluate(x, cap)
  \/ \E x \in Rows(inputLength(Heap, main)) : \E m \in 1..MaxOuterCap : UntilStable(x, m)
  \/ \E v \in Bits : topo \in ClockedTopologies /\ Clock(v, MaxApiSteps)

SpecApi == InitApi /\ [][NextApi]_vars

(***************************************************************************)
(* SpecGraph: a client builds a node graph one constructor call at a time, *)
(* closes feedback cycles by assigning inputNode, wraps some of the nodes  *)
(* as roots in a Circuit (main) and reads its inputLength.  `fork` is the  *)
(* inverter template the Composite nodes are placed from.                  *)
(***************************************************************************)
MaxGraphNodes == 3

\* the Input indices used
MaxIndex == 2

\* the nodes the client constructed itself: not those of the template and
\* of its private copies
ClientNodes ==
  (1..Len(nodes)) \ UNION {GraphNodes(Heap, k) : k \in 1..Len(circuits)}

\* the nodes a constructor call of the client may produce
NewRecords ==
  {InputNode(i) : i \in 0..MaxIndex}
    \cup {LiteralNode(1), FeedbackNode(Null, 0, 0)}
    \cup {GateNode("NOT", <<a>>, 0) : a \in ClientNodes}
    \cup {GateNode("AND", <<a, b>>, 0) : a, b \in ClientNodes}
    \cup {SubCircuitOutputNode(a, 0) : a \in {n \in ClientNodes : nodes[n].kind = "Composite"}}

InitGraph ==
  /\ topo = "graph"
  /\ \E b \in {BuildInverter(EmptyHeap)} :
        /\ nodes = b.st.nodes
        /\ circuits = b.st.circuits
        /\ fork = b.id
  /\ main = Null
  /\ fresh = Null
  /\ forkKind = "none"
  /\ cloneMap = EmptyMap
  /\ lastOp = [op |-> "build", targets |-> {}, inputs |-> <<>>]
  /\ outs = NoOutputs
  /\ inSync = TRUE
  /\ steps = 0
  /\ lastError = NoError
  /\ log = <<>>
  /\ result = NoResult

\* new InputNode(i), new LiteralNode(1), new FeedbackNode(null),
\* new GateNode(...), new SubCircuitOutputNode(...)
NewNode(rec) ==
  /\ main = Null
  /\ Cardinality(ClientNodes) < MaxGraphNodes
  /\ nodes' = Append(nodes, rec)
  /\ lastOp' = [op |-> "new", targets |-> {}, inputs |-> <<>>]
  /\ UNCHANGED <<circuits, topo, main, fork, fresh, forkKind, cloneMap, outs, inSync,
                 steps, lastError, log, result>>

\* new CompositeNode(template, [a])
Place(a) ==
  /\ main = Null
  /\ Cardinality(ClientNodes) < MaxGraphNodes
  /\ \E c \in {CompositeConstructor(Heap, fork, <<a>>)} :
        /\ nodes' = c.st.nodes
        /\ circuits' = c.st.circuits
        /\ lastError' = c.st.err
  /\ lastOp' = [op |-> "new", targets |-> {}, inputs |-> <<>>]
  /\ UNCHANGED <<topo, main, fork, fresh, forkKind, cloneMap, outs, inSync, steps, log,
                 result>>

\* f.inputNode = a, for a Feedback node constructed with null
Wire(f, a) ==
  /\ main = Null
  /\ nodes[f].kind = "Feedback"
  /\ nodes[f].inputNode = Null
  /\ nodes' = [nodes EXCEPT ![f].inputNode = a]
  /\ lastOp' = [op |-> "wire", targets |-> {}, inputs |-> <<>>]
  /\ UNCHANGED <<circuits, topo, main, fork, fresh, forkKind, cloneMap, outs, inSync,
                 steps, lastError, log, result>>

\* main = new Circuit(name, roots); main.inputLength
Measure(roots) ==
  /\ main = Null
  /\ \E s \in {AddCircuit(Heap, NewCircuit(roots))} :
        /\ circuits' = s.circuits
        /\ main' = LastCircuit(s)
        /\ result' = [op |-> "inputLength", value |-> inputLength(s, LastCircuit(s))]
  /\ lastOp' = [op |-> "inputLength", targets |-> {"main"}, inputs |-> <<>>]
  /\ UNCHANGED <<nodes, topo, fork, fresh, forkKind, cloneMap, outs, inSync, steps,
                 lastError, log>>

NextGraph ==
  \/ \E rec \in NewRecords : NewNode(rec)
  \/ \E a \in ClientNodes : Place(a)
  \/ \E f, a \in ClientNodes : Wire(f, a)
  \/ \E a, b \in ClientNodes : Measure(IF a = b THEN <<a>> ELSE <<a, b>>)

SpecGraph == InitGraph /\ [][NextGraph]_vars

(***************************************************************************)
(* SpecSched: a client of one Scheduler (the scheduler of the circuit      *)
(* `main`) queues events and asks for the events of a tick.  Every event   *)
(* carries its own callback: the callback of the k-th event scheduled      *)
(* holds the value k.                                                      *)
(***************************************************************************)
MaxScheduled == 4

\* the ticks events are scheduled for and asked about
MaxTick == 2

InitSched ==
  /\ topo = "scheduler"
  /\ Constructed(Built(EmptyHeap, <<>>, StandardRegistry, <<>>))
  /\ log = <<>>
  /\ result = NoResult

\* scheduler.scheduleEvent(targetTick, callback)
Schedule(targetTick) ==
  /\ steps < MaxScheduled
  /\ \E s \in {scheduleEvent(Heap, main, targetTick, Callback(Null, "lastValue", steps + 1),
                              DefaultDescription)} :
        circuits' = s.circuits
  /\ lastOp' = [op |-> "scheduleEvent", targets |-> {"main"}, inputs |-> <<targetTick>>]
  /\ steps' = steps + 1
  /\ UNCHANGED <<nodes, topo, main, fork, fresh, forkKind, cloneMap, outs, inSync,
                 lastError, log, result>>

\* scheduler.consumeEventsForTick(t)
Consume(t) ==
  /\ \E ev \in {consumeEventsForTick(circuits[main].events, t)} :
        /\ circuits' = [circuits EXCEPT ![main].events = ev.remaining]
        /\ result' = [op |-> "consumeEventsForTick", value |-> ev.ready]
  /\ lastOp' = [op |-> "consumeEventsForTick", targets |-> {"main"}, inputs |-> <<t>>]
  /\ UNCHANGED <<nodes, topo, main, fork, fresh, forkKind, cloneMap, outs, inSync,
                 steps, lastError, log>>

\* scheduler.hasEventsForTick(t)
Has(t) ==
  /\ result' = [op |-> "hasEventsForTick",
                value |-> hasEventsForTick(circuits[main].events, t)]
  /\ lastOp' = [op |-> "hasEventsForTick", targets |-> {"main"}, inputs |-> <<t>>]
  /\ UNCHANGED <<nodes, circuits, topo, main, fork, fresh, forkKind, cloneMap, outs,
                 inSync, steps, lastError, log>>

NextSched ==
  \/ \E t \in 0..MaxTick : Schedule(t)
  \/ \E t \in 0..MaxTick : Consume(t)
  \/ \E t \in 0..MaxTick : Has(t)

SpecSched == InitSched /\ [][NextSched]_vars

(***************************************************************************)
(* SpecTable: generateTruthTable and simplify called on a circuit in use:  *)
(* `main` has been ticked and clocked, so its Feedback nodes, Gate         *)
(* latches, Composite caches, scheduler and history hold state when the    *)
(* call is made.  `fork` is the circuit simplify returned.                 *)
(***************************************************************************)
MaxTableSteps == 3

TableTopologies ==
  {"delay", "chain", "oscillator", "dff", "pair", "loop", "halfAdder", "mux2"}

BuildTabled(st, t) ==
  IF t \in {"halfAdder", "mux2"} THEN BuildLib(st, t, 0) ELSE Build(st, t)

InitTable ==
  /\ topo \in TableTopologies
  /\ Constructed(BuildTabled(EmptyHeap, topo))
  /\ log = <<>>
  /\ result = NoResult

\* main.generateTruthTable(clockLevel)
GenerateTable(clockLevel) ==
  /\ \E r \in {generateTruthTable(Heap, main, clockLevel)} :
        /\ nodes' = r.st.nodes
        /\ circuits' = r.st.circuits
        /\ lastError' = r.st.err
        /\ result' = [op |-> "generateTruthTable", value |-> r.table]
  /\ lastOp' = [op |-> "generateTruthTable", targets |-> {"main"}, inputs |-> <<clockLevel>>]
  /\ steps' = steps + 1
  /\ UNCHANGED <<topo, main, fork, fresh, forkKind, cloneMap, outs, inSync, log>>

NextTable ==
  /\ steps < MaxTableSteps
  /\ \/ \E x \in Rows(inputLength(Heap, main)) : Drive(x, MaxTableSteps, 0)
     \/ \E v \in Bits : HasClock(Heap, main) /\ Clock(v, MaxTableSteps)
     \/ \E level \in {NullLevel, 0, 1} : GenerateTable(level)
     \/ Simplify

SpecTable == InitTable /\ [][NextTable]_vars


(***************************************************************************)
(* SpecWired: graphs a client wires by hand, ticked on `main`: a           *)
(* SubCircuitOutput on a lane its Composite does not have, a Feedback      *)
(* node read by the roots both directly and through a Composite, and       *)
(* circuits one of whose roots is a gate the client has not registered     *)
(* yet and registers later.                                                *)
(***************************************************************************)
MaxWiredSteps == 3

\* (inputs) => 1 - (inputs[0] & inputs[1])
NandGate == TableGate({<<0, 0>>, <<0, 1>>, <<1, 0>>})

\* Output[0] = Inverter(Input[0])[index]
BuildLane(st, index) ==
  LET t  == BuildInverter(st)
      s1 == AddNode(t.st, InputNode(0))
      c  == CompositeConstructor(s1, t.id, <<LastNode(s1)>>)
      s2 == AddNode(c.st, SubCircuitOutputNode(c.id, index))
  IN Built(s2, <<LastNode(s2)>>, Registry({}), <<>>)

\* F = Inverter(F)[0] with the roots [Inverter(F)[0], F]
BuildLoopBoth(st) ==
  LET t  == BuildInverter(st)
      s1 == AddNode(t.st, FeedbackNode(Null, 0, 0))
      F  == LastNode(s1)
      c  == CompositeConstructor(s1, t.id, <<F>>)
      s2 == AddNode(c.st, SubCircuitOutputNode(c.id, 0))
      S  == LastNode(s2)
      s3 == [s2 EXCEPT !.nodes[F].inputNode = S]
  IN Built(s3, <<S, F>>, Registry({}), <<F>>)

\* roots [NOT(Input[0]) with the given delay, NAND(Input[0], Input[0])] in
\* a circuit that registered AND, OR, NOT and XOR
BuildPartial(st, delay) ==
  LET b  == Len(st.nodes)
      s1 == [st EXCEPT !.nodes = @ \o << InputNode(0),
                                         GateNode("NOT", <<b + 1>>, delay),
                                         GateNode("NAND", <<b + 1, b + 1>>, 0) >>]
  IN Built(s1, <<b + 2, b + 3>>, StandardRegistry, <<>>)

\* roots [F, NAND(Input[0], Input[0])], F = Feedback(NOT F)
BuildPartialOscillator(st) ==
  LET b  == Len(st.nodes)
      s1 == [st EXCEPT !.nodes = @ \o << InputNode(0),
                                         FeedbackNode(b + 3, 0, 0),
                                         GateNode("NOT", <<b + 2>>, 0),
                                         GateNode("NAND", <<b + 1, b + 1>>, 0) >>]
  IN Built(s1, <<b + 2, b + 4>>, StandardRegistry, <<b + 2>>)

WiredTopologies ==
  {"laneBeyond", "laneNegative", "loopBoth", "partial", "partialDelay", "partialOscillator"}

BuildWired(st, t) ==
  CASE t = "laneBeyond" -> BuildLane(st, 1)
    [] t = "laneNegative" -> BuildLane(st, -1)
    [] t = "loopBoth" -> BuildLoopBoth(st)
    [] t = "partial" -> BuildPartial(st, 0)
    [] t = "partialDelay" -> BuildPartial(st, 1)
    [] t = "partialOscillator" -> BuildPartialOscillator(st)

InitWired ==
  /\ topo \in WiredTopologies
  /\ Constructed(BuildWired(EmptyHeap, topo))
  /\ log = <<>>
  /\ result = NoResult

\* Handle(h).registerGate(name, func)
RegisterGate(h, name, func, bound) ==
  /\ steps < bound
  /\ Handle(h) # Null
  /\ \E s \in {registerGate(Heap, Handle(h), name, func)} :
        /\ nodes' = s.nodes
        /\ circuits' = s.circuits
  /\ lastOp' = [op |-> "registerGate", targets |-> {h}, inputs |-> <<>>]
  /\ steps' = steps + 1
  /\ UNCHANGED <<topo, main, fork, fresh, forkKind, cloneMap, outs, inSync,
                 lastError, log, result>>

NextWired ==
  \/ \E x \in Rows(inputLength(Heap, main)) : Drive(x, MaxWiredSteps, 0)
  \/ RegisterGate("main", "NAND", NandGate, MaxWiredSteps)

SpecWired == InitWired /\ [][NextWired]_vars

(***************************************************************************)
(* SpecForks: a client clones a circuit in use and goes on registering     *)
(* gates.  `fork` is main.clone(p), or main.clone(true).clone(false) next  *)
(* to `fresh` = main.clone(false).  On the circuit "borrowed", `main` is a *)
(* parent with an empty registry around one Composite, and `fresh` is the  *)
(* template the client built for it and still holds.                       *)
(***************************************************************************)
MaxForkSteps == 3

\* (inputs) => inputs[0]
BufferGate == TableGate({<<1>>})

\* the template: Output[0] = G(Input[0], Input[1]), with G registered as AND
BuildTemplate(st) ==
  LET b  == Len(st.nodes)
      s1 == [st EXCEPT !.nodes = @ \o << InputNode(0), InputNode(1),
                                         GateNode("G", <<b + 1, b + 2>>, 0) >>]
  IN Built(s1, <<b + 3>>, [g \in {"G"} |-> StdGate("AND")], <<>>)

\* Output[0] = Template(Input[0], Input[1])[0] in a parent that registers
\* no gate.  [st, id, template]
BuildBorrowed(st) ==
  LET t  == BuildTemplate(st)
      b  == Len(t.st.nodes)
      s1 == [t.st EXCEPT !.nodes = @ \o << InputNode(0), InputNode(1) >>]
      c  == CompositeConstructor(s1, t.id, <<b + 1, b + 2>>)
      s2 == AddNode(c.st, SubCircuitOutputNode(c.id, 0))
      p  == Built(s2, <<LastNode(s2)>>, Registry({}), <<>>)
  IN [st |-> p.st, id |-> p.id, template |-> t.id]

ForkTopologies == {"oscillator", "delay", "dff", "borrowed"}

InitForks ==
  /\ topo \in ForkTopologies
  /\ IF topo = "borrowed"
     THEN \E b \in {BuildBorrowed(EmptyHeap)} :
            /\ nodes = b.st.nodes
            /\ circuits = b.st.circuits
            /\ main = b.id
            /\ fresh = b.template
            /\ forkKind = "template"
     ELSE \E b \in {Build(EmptyHeap, topo)} :
            /\ nodes = b.st.nodes
            /\ circuits = b.st.circuits
            /\ main = b.id
            /\ fresh = Null
            /\ forkKind = "none"
  /\ fork = Null
  /\ cloneMap = EmptyMap
  /\ lastOp = [op |-> "build", targets |-> {}, inputs |-> <<>>]
  /\ outs = NoOutputs
  /\ inSync = TRUE
  /\ steps = 0
  /\ lastError = NoError
  /\ log = <<>>
  /\ result = NoResult

\* fork = main.clone(preserveState)
Fork(preserveState) ==
  /\ steps < MaxForkSteps
  /\ forkKind = "none"
  /\ \E r \in {clone(Heap, main, preserveState)} :
        /\ nodes' = r.st.nodes
        /\ circuits' = r.st.circuits
        /\ lastError' = r.st.err
        /\ fork' = r.id
        /\ cloneMap' = r.map
  /\ forkKind' = IF preserveState THEN "true" ELSE "false"
  /\ lastOp' = [op |-> "clone", targets |-> {}, inputs |-> <<>>]
  /\ steps' = steps + 1
  /\ UNCHANGED <<topo, main, fresh, outs, inSync, log, result>>

\* fork = main.clone(true).clone(false); fresh = main.clone(false)
ForkTwice ==
  /\ steps < MaxForkSteps
  /\ forkKind = "none"
  /\ \E r1 \in {clone(Heap, main, TRUE)} :
     \E r2 \in {clone(r1.st, r1.id, FALSE)} :
     \E r3 \in {clone(r2.st, main, FALSE)} :
        /\ nodes' = r3.st.nodes
        /\ circuits' = r3.st.circuits
        /\ lastError' = r3.st.err
        /\ fork' = r2.id
        /\ fresh' = r3.id
        /\ cloneMap' = r3.map
  /\ forkKind' = "twice"
  /\ lastOp' = [op |-> "clone", targets |-> {}, inputs |-> <<>>]
  /\ steps' = steps + 1
  /\ UNCHANGED <<topo, main, outs, inSync, log, result>>

\* fork.tick(inputs)
DriveFork(inputs) ==
  /\ steps < MaxForkSteps
  /\ forkKind \in {"true", "false"}
  /\ \E r \in {tick(Heap, fork, inputs)} :
        /\ nodes' = r.st.nodes
        /\ circuits' = r.st.circuits
        /\ lastError' = r.st.err
        /\ outs' = [outs EXCEPT !["fork"] = r.val]
  /\ lastOp' = [op |-> "tick", targets |-> {"fork"}, inputs |-> inputs]
  /\ steps' = steps + 1
  /\ UNCHANGED <<topo, main, fork, fresh, forkKind, cloneMap, inSync, log, result>>

\* the circuits the client re-registers a gate on: the original, and the
\* template of the Composite
Registrants == IF forkKind = "template" THEN {"main", "fresh"} ELSE {"main"}

NextForks ==
  \/ \E x \in Rows(inputLength(Heap, main)) : Drive(x, MaxForkSteps, 0)
  \/ \E x \in Rows(inputLength(Heap, main)) : DriveFork(x)
  \/ \E p \in BOOLEAN : Fork(p)
  \/ ForkTwice
  \/ \E h \in Registrants : RegisterGate(h, "NOT", BufferGate, MaxForkSteps)
  \/ \E h \in Registrants : RegisterGate(h, "G", StdGate("OR"), MaxForkSteps)

SpecForks == InitForks /\ [][NextForks]_vars

(***************************************************************************)
(* Properties.                                                             *)
(***************************************************************************)
LastRecord(c) == circuits[c].history[Len(circuits[c].history)]

TickedTogether(T) == lastOp.op = "tick" /\ lastOp.targets = T /\ inSync

\* C2: after clone(true), the original and the clone driven by the same
\* further setClock/tick calls return identical output vectors at every step.
C2_CloneTrueSameContinuation ==
  (forkKind = "true" /\ TickedTogether({"main", "fork"}))
     => outs["main"] = outs["fork"]

\* whether k further delta cycles at the tick just run keep changing the vector
RECURSIVE KeepsChanging(_, _, _, _, _)
KeepsChanging(st, c, inputs, previous, k) ==
  IF k = 0 THEN TRUE
  ELSE LET d == DeltaCycle(st, c, inputs)
       IN IF arraysEqual(previous, d.outputs) THEN FALSE
          ELSE KeepsChanging(d.st, c, inputs, d.outputs, k - 1)

\* C3: a tick runs delta cycles until the vector repeats (or the cap is
\* reached), so the vector a tick returns is a fixed point of the delta
\* cycle at that tick unless maxDeltaCycles cycles were run.
C3_ReturnsDeltaFixedPoint ==
  \A h \in lastOp.targets :
    lastOp.op = "tick" =>
      \/ Len(LastRecord(Handle(h)).subHistory) >= DefaultMaxDeltaCycles
      \/ arraysEqual(outs[h], DeltaCycle(Heap, Handle(h), lastOp.inputs).outputs)

\* C4: a tick whose output does not stabilize within maxDeltaCycles delta
\* cycles returns without raising and is recorded unstable = true; a tick
\* that stabilizes is recorded unstable = false.
C4_UnstableRecorded ==
  \A h \in lastOp.targets :
    lastOp.op = "tick" =>
      /\ lastError = NoError
      /\ LastRecord(Handle(h)).unstable =
           KeepsChanging(Heap, Handle(h), lastOp.inputs, outs[h], DefaultMaxDeltaCycles - 1)

\* C8: clone(false) of a circuit in any state, driven with a sequence of
\* calls, returns the same outputs as a freshly built circuit of the same
\* topology driven with the same sequence.
C8_CloneFalseAsFresh ==
  (forkKind = "false" /\ TickedTogether({"fork", "fresh"}))
     => outs["fork"] = outs["fresh"]

Perms(S) == {p \in [1..Cardinality(S) -> S] : \A x \in S : \E i \in DOMAIN p : p[i] = x}

\* the circuit with an empty feedback list on which the nodes of `order`
\* are registered one after the other
RegisteredInOrder(st, c, order) ==
  LET R[i \in 0..Len(order)] ==
        IF i = 0 THEN [st EXCEPT !.circuits[c].feedbackNodes = <<>>]
        ELSE registerFeedbackNode(R[i - 1], c, order[i])
  IN R[Len(order)]

FeedbackValues(st, c) ==
  [n \in SeqRange(st.circuits[c].feedbackNodes) |-> st.nodes[n].currentValue]

\* the value of n's driving expression on the state the next tick starts from
DrivenValue(st, c, n, inputs) ==
  NodeEvaluate([st EXCEPT !.circuits[c].currentTick = st.circuits[c].totalTicks],
               c, st.nodes[n].inputNode, inputs).val

\* C5: in a delta cycle every driving expression is evaluated against the
\* feedback values held before the update, so the feedback values and the
\* outputs after a tick are the same for every registration order.
C5_OrderIndependent ==
  \A x \in Rows(inputLength(Heap, main)) :
    LET a == tick(Heap, main, x)
        registered == SeqRange(circuits[main].feedbackNodes)
    IN /\ \A p \in Perms(registered) :
            LET b == tick(RegisteredInOrder(Heap, main, p), main, x)
            IN /\ a.val = b.val
               /\ FeedbackValues(a.st, main) = FeedbackValues(b.st, main)
       /\ \A n \in registered :
            (nodes[n].delay = 0 /\ circuits[main].events = <<>>)
               => a.st.nodes[n].currentValue = DrivenValue(Heap, main, n, x)

\* a tick has left two registered feedback nodes with different values
C5_Witness ==
  /\ lastOp.op = "tick"
  /\ "main" \in lastOp.targets
  /\ \E n1, n2 \in SeqRange(circuits[main].feedbackNodes) :
        /\ nodes[n1].inputNode = n2
        /\ nodes[n1].currentValue # nodes[n2].currentValue

MapOver(m, seq) == [i \in 1..Len(seq) |-> m[seq[i]]]

\* C6: clone maps every original node to exactly one copy: the copy of a
\* node refers to the copies of the nodes the original refers to, also
\* through feedback cycles and Composite nodes.
C6_OneCopyPerNode ==
  lastOp.op = "clone" =>
    LET G == GraphNodes(Heap, main)
        m == cloneMap
    IN /\ lastError = NoError
       /\ G \subseteq DOMAIN m
       /\ \A n1, n2 \in G : m[n1] = m[n2] => n1 = n2
       /\ circuits[fork].rootNodes = MapOver(m, circuits[main].rootNodes)
       /\ circuits[fork].feedbackNodes = MapOver(m, circuits[main].feedbackNodes)
       /\ \A n \in G :
            /\ nodes[m[n]].kind = nodes[n].kind
            /\ nodes[m[n]].inputNodes = MapOver(m, nodes[n].inputNodes)
            /\ nodes[n].inputNode # Null => nodes[m[n]].inputNode = m[nodes[n].inputNode]
            /\ nodes[n].compositeNode # Null
                 => nodes[m[n]].compositeNode = m[nodes[n].compositeNode]
       /\ GraphNodes(Heap, fork) = {m[n] : n \in G}

Live == {h \in {"main", "fork"} : Handle(h) # Null}

\* C7: after clone, no operation on the clone changes any state of the
\* original and no operation on the original changes the clone.
C7_CloneFrame ==
  [][\A h \in Live :
       h \notin lastOp'.targets
          => StateOf(Heap, Handle(h))' = StateOf(Heap, Handle(h))]_vars

\* the clone was taken with events pending, and has since fired events of its own
C7_Witness ==
  /\ forkKind = "true"
  /\ lastOp.op = "tick"
  /\ lastOp.targets = {"fork"}
  /\ circuits[main].events # <<>>
  /\ \E i \in DOMAIN circuits[fork].events : circuits[fork].events[i].targetTick = Undefined
  /\ LastRecord(fork).subHistory[1].consumedEvents # <<>>

\* C9: in the circuit clone(false) returns, every Feedback node holds its
\* declared initial value, every Gate's lastValue is 0, the scheduler queue
\* is empty and totalTicks and currentTick are 0.
C9_CloneFalseIsReset ==
  (lastOp.op = "clone" /\ forkKind = "false") =>
    /\ \A n \in GraphNodes(Heap, main) :
         nodes[n].kind = "Feedback"
            => /\ nodes[cloneMap[n]].currentValue = nodes[n].initialValue
               /\ nodes[cloneMap[n]].initialValue = nodes[n].initialValue
    /\ \A n \in OwnedNodes(Heap, fork) :
         /\ nodes[n].kind = "Feedback" => nodes[n].currentValue = nodes[n].initialValue
         /\ nodes[n].kind = "Gate" => nodes[n].lastValue = 0
    /\ \A k \in OwnedCircuits(Heap, fork) :
         /\ circuits[k].events = <<>>
         /\ circuits[k].totalTicks = 0
         /\ circuits[k].currentTick = 0

\* clone(false) of a circuit that has run: some feedback value, gate latch
\* or sub-circuit counter of the original is not the reset one
C9_Witness ==
  /\ lastOp.op = "clone"
  /\ forkKind = "false"
  /\ circuits[main].totalTicks > 0
  /\ \/ circuits[main].events # <<>>
     \/ \E n \in OwnedNodes(Heap, main) :
          \/ nodes[n].kind = "Feedback" /\ nodes[n].currentValue # nodes[n].initialValue
          \/ nodes[n].kind = "Gate" /\ nodes[n].lastValue # 0

\* the Composite nodes placed in the graph of circuit c
Placements(st, c) == {n \in GraphNodes(st, c) : st.nodes[n].kind = "Composite"}

\* the template circuit the placements of `pair` were constructed from
LatchTemplate == BuildLatch(EmptyHeap)

Disjoint(st, c1, c2) ==
  /\ OwnedNodes(st, c1) \cap OwnedNodes(st, c2) = {}
  /\ OwnedCircuits(st, c1) \cap OwnedCircuits(st, c2) = {}

\* C10: two Composite nodes built from one template never share state:
\* their sub-circuits and the template own disjoint objects, evaluating one
\* placement changes nothing the other placement or the template owns, and
\* the template is after any sequence of parent ticks as it was built.
C10_PlacementsIsolated ==
  topo = "pair" =>
    LET P    == Placements(Heap, main)
        sub(p) == nodes[p].subCircuit
        tmpl == LatchTemplate.id
        next == [Heap EXCEPT !.circuits[main].currentTick = circuits[main].totalTicks]
    IN /\ \A p \in P : Disjoint(Heap, sub(p), tmpl)
       /\ \A p, q \in P : p # q => Disjoint(Heap, sub(p), sub(q))
       /\ StateOf(Heap, tmpl) = StateOf(LatchTemplate.st, tmpl)
       /\ \A x \in Rows(inputLength(Heap, main)) : \A p \in P :
            LET r == NodeEvaluate(next, main, p, x)
            IN /\ StateOf(r.st, tmpl) = StateOf(Heap, tmpl)
               /\ \A q \in P \ {p} : StateOf(r.st, sub(q)) = StateOf(Heap, sub(q))

\* a parent tick has set the latch of one placement and not of the other
C10_Witness ==
  /\ topo = "pair"
  /\ lastOp.op = "tick"
  /\ "main" \in lastOp.targets
  /\ \E p, q \in Placements(Heap, main) :
       /\ nodes[p].cachedOutputs = <<1>>
       /\ nodes[q].cachedOutputs = <<0>>

\* C1: simplify() returns a circuit, and the returned circuit evaluates to
\* the outputs of the original on every input row, for every function of up
\* to three inputs.
C1_SimplifyEquivalent ==
  /\ lastOp.op = "simplify" => lastError = NoError
  /\ lastOp.op = "evaluate" => outs["main"] = outs["fork"]


(***************************************************************************)
(* Composite nodes in the example library.                                 *)
(***************************************************************************)
\* the output vectors of the ticks circuit c made between two heaps
NewOutputs(pre, post, c) ==
  [i \in 1..(Len(post.circuits[c].history) - Len(pre.circuits[c].history)) |->
     LET rec == post.circuits[c].history[Len(pre.circuits[c].history) + i]
     IN rec.subHistory[Len(rec.subHistory)].outputs]

\* seq[start..] is exactly k runs of evaluateUntilStable: each run ends at
\* its first tick that repeats the tick before it, or after maxOuter ticks
RECURSIVE SplitsInto(_, _, _)
SplitsInto(seq, start, k) ==
  IF k = 0 THEN start = Len(seq) + 1
  ELSE LET ends == {j \in (start + 1)..Len(seq) : seq[j] = seq[j - 1]}
       IN IF ends = {}
          THEN k = 1 /\ Len(seq) - start + 1 = DefaultMaxOuter
          ELSE /\ MinOf(ends) - start + 1 <= DefaultMaxOuter
               /\ SplitsInto(seq, MinOf(ends) + 1, k - 1)

\* C11: within one parent tick a Composite's sub-circuit is driven at most
\* once.  Over a tick of `main`, the ticks every sub-circuit gains are one
\* run of evaluateUntilStable per tick its parent made, whatever the number
\* of SubCircuitOutput nodes that read the Composite; the Composite's cache
\* holds the vector of that run, a further evaluate in the same parent tick
\* (with the tick's inputs or with their complement) returns it and changes
\* nothing, and every parent tick advances the sub-circuit anew.
C11_DrivenOncePerTick ==
  [][ (lastOp'.op = "tick" /\ "main" \in lastOp'.targets /\ lastError' = NoError) =>
        /\ \A c \in OwnedCircuits(Heap, main) : \A n \in Placements(Heap, c) :
              SplitsInto(NewOutputs(Heap, Heap', nodes[n].subCircuit), 1,
                         circuits'[c].totalTicks - circuits[c].totalTicks)
        /\ \A n \in Placements(Heap, main) :
              /\ circuits'[nodes[n].subCircuit].totalTicks
                   > circuits[nodes[n].subCircuit].totalTicks
              /\ nodes'[n].lastEvaluationTick = circuits'[main].currentTick
              /\ nodes'[n].cachedOutputs
                   = circuits'[nodes[n].subCircuit].history[
                       Len(circuits'[nodes[n].subCircuit].history)].subHistory[1].outputs
              /\ \A x \in {lastOp'.inputs,
                            [i \in DOMAIN lastOp'.inputs |-> 1 - lastOp'.inputs[i]]} :
                    NodeEvaluate(Heap', main, n, x) = Ret(Heap', nodes'[n].cachedOutputs)
    ]_vars

\* the full adder after two ticks: each half adder, read by two
\* SubCircuitOutput nodes, has made two runs of two ticks
C11_Witness ==
  /\ topo = "fullAdder"
  /\ circuits[main].totalTicks = 2
  /\ lastError = NoError
  /\ Cardinality(Placements(Heap, main)) = 2
  /\ \A n \in Placements(Heap, main) :
        /\ Cardinality({m \in GraphNodes(Heap, main) :
                          nodes[m].compositeNode = n}) = 2
        /\ circuits[nodes[n].subCircuit].totalTicks = 4
        /\ nodes[n].lastEvaluationTick = 1
  /\ \E n \in Placements(Heap, main) : nodes[n].cachedOutputs = <<0, 1>>


\* the value a Composite's input node handed to the sub-circuit in the
\* latest tick with parent inputs x
BoundValue(st, m, x) ==
  CASE st.nodes[m].kind = "Input" -> x[st.nodes[m].index + 1]
    [] st.nodes[m].kind = "SubCircuitOutput" ->
         st.nodes[st.nodes[m].compositeNode].cachedOutputs[st.nodes[m].outputIndex + 1]

BoundInputs(st, n, x) ==
  [i \in 1..Len(st.nodes[n].inputNodes) |-> BoundValue(st, st.nodes[n].inputNodes[i], x)]

\* the heap after k ticks of circuit c with inputs x
RECURSIVE AfterTicks(_, _, _, _)
AfterTicks(st, c, x, k) ==
  IF k = 0 THEN st ELSE The({ AfterTicks(r.st, c, x, k - 1) : r \in {tick(st, c, x)} })

\* each of the next k ticks of circuit c with inputs x returns v
RECURSIVE KeepsProducing(_, _, _, _, _)
KeepsProducing(st, c, x, v, k) ==
  \/ k = 0
  \/ The({ ~Failed(r.st) /\ r.val = v /\ KeepsProducing(r.st, c, x, v, k - 1)
           : r \in {tick(st, c, x)} })

\* under constant inputs x the outputs of circuit c settle within a few ticks
Converges(st, c, x) ==
  \E t \in 0..(MaxDelay + 2) :
     The({ KeepsProducing(s, c, x, tick(s, c, x).val, MaxDelay + 2)
           : s \in {AfterTicks(st, c, x, t)} })

\* C12: the vector a Composite returns for its bound inputs is a steady
\* state of its sub-circuit: whenever the sub-circuit converges under those
\* inputs, further ticks of it with the same inputs keep returning the
\* vector the Composite cached.
C12_ReturnsSteadyState ==
  (lastOp.op = "tick" /\ lastError = NoError) =>
    \A n \in Placements(Heap, main) :
       Converges(Heap, nodes[n].subCircuit, BoundInputs(Heap, n, lastOp.inputs)) =>
         KeepsProducing(Heap, nodes[n].subCircuit, BoundInputs(Heap, n, lastOp.inputs),
                        nodes[n].cachedOutputs, MaxDelay + 1)


(***************************************************************************)
(* The clocked examples.                                                   *)
(***************************************************************************)
\* the Feedback node Q: root 0 of each flip-flop
QNode == circuits[main].rootNodes[1]

\* the tick about to be made sees a rising edge: the clock is 1 and was 0
\* at the tick before, or there was no tick before
RisingEdge ==
  circuits[main].clock = 1 /\ (log = <<>> \/ log[Len(log)].clock = 0)

\* a step that is one tick of `main`
TickStep == lastOp'.op = "tick" /\ steps' = steps + 1 /\ lastError' = NoError

\* output 0 of each tick of: setClock(clk); tick([d]) for every <<clk, d>>
RECURSIVE Clocked(_, _, _)
Clocked(st, c, pairs) ==
  IF pairs = <<>> THEN <<>>
  ELSE The({ <<r.val[1]>> \o Clocked(r.st, c, Tail(pairs))
             : r \in {tick(setClock(st, c, Head(pairs)[1]), c, <<Head(pairs)[2]>>)} })

\* C13: the D flip-flop captures D on a rising edge and holds otherwise:
\* Q after a tick is the D of that tick when the clock is 1 and was 0 at
\* the tick before (or no tick came before), else Q as it was; the tick
\* returns that Q.  From a fresh flip-flop the ticks CLK=0,D=1; CLK=1,D=1;
\* CLK=1,D=0; CLK=0; CLK=1,D=0 give Q = 0, 1, 1, 1, 0.
C13_DFlipFlop ==
  /\ \A d \in Bits :
        The({ Clocked(b.st, b.id, <<<<0, 1>>, <<1, 1>>, <<1, 0>>, <<0, d>>, <<1, 0>>>>)
              : b \in {createDFlipFlop(EmptyHeap)} }) = <<0, 1, 1, 1, 0>>
  /\ [][ (topo = "dff" /\ TickStep) =>
           /\ nodes'[QNode].currentValue =
                IF RisingEdge THEN lastOp'.inputs[1] ELSE nodes[QNode].currentValue
           /\ outs'["main"][1] = nodes'[QNode].currentValue
       ]_vars

\* the five ticks of the example have been made, the last on a rising edge
\* with D = 0 while Q was 1
C13_Witness ==
  /\ topo = "dff"
  /\ lastOp.op = "tick"
  /\ [i \in 1..Len(circuits[main].history) |->
        circuits[main].history[i].subHistory[1].outputs[1]] = <<0, 1, 1, 1, 0>>
  /\ log = <<LogEntry(0, <<0>>), LogEntry(1, <<0>>)>>
  /\ nodes[QNode].currentValue = 0


\* the number held by the counter's four Feedback nodes Q0 (low) .. Q3
Count(ns) ==
  LET q(i) == ns[circuits[main].rootNodes[i]].currentValue
  IN q(1) + 2 * q(2) + 4 * q(3) + 8 * q(4)

\* C14: the 4-bit counter: a tick with RESET = 1 leaves the count 0; a tick
\* with RESET = 0 and ENABLE = 1 on a rising edge takes the count c to
\* (c + 1) mod 16, every bit computed from the old count; every other tick
\* with RESET = 0 leaves the count as it was.  The tick returns the bits
\* of the new count.
C14_Counter ==
  [][ (topo = "counter" /\ TickStep) =>
        LET ENABLE == lastOp'.inputs[1]
            RESET  == lastOp'.inputs[2]
            c == Count(nodes)
        IN /\ Count(nodes') = IF RESET = 1 THEN 0
                              ELSE IF ENABLE = 1 /\ RisingEdge THEN (c + 1) % 16
                              ELSE c
           /\ outs'["main"] = [i \in 1..4 |-> (Count(nodes') \div (2 ^ (i - 1))) % 2]
    ]_vars

\* the count has wrapped from 15 to 0 on a rising edge with RESET = 0
C14_Witness ==
  /\ topo = "counter"
  /\ steps > 0
  /\ lastOp.op = "tick"
  /\ lastOp.inputs = <<1, 0>>
  /\ log[Len(log)].clock = 1
  /\ Count(nodes) = 0
  /\ Len(circuits[main].history) > 1
  /\ circuits[main].history[Len(circuits[main].history) - 1].subHistory[1].outputs
       = <<1, 1, 1, 1>>


\* exclusive or of two bits
Xor(a, b) == (a + b) % 2

\* (J AND NOT Q) OR (NOT K AND Q)
JKNext(J, K, Q) == IF (J = 1 /\ Q = 0) \/ (K = 0 /\ Q = 1) THEN 1 ELSE 0

\* C15: the T and JK flip-flops change Q only on a rising-edge tick: then
\* the new Q is Q XOR T for the T flip-flop and (J AND NOT Q) OR (NOT K
\* AND Q) for the JK flip-flop; on every other tick Q keeps its value.  The
\* tick returns the new Q.
C15_ToggleFlipFlops ==
  [][ /\ (topo = "tff" /\ TickStep) =>
            /\ nodes'[QNode].currentValue =
                 IF RisingEdge THEN Xor(nodes[QNode].currentValue, lastOp'.inputs[1])
                 ELSE nodes[QNode].currentValue
            /\ outs'["main"][1] = nodes'[QNode].currentValue
      /\ (topo = "jkff" /\ TickStep) =>
            /\ nodes'[QNode].currentValue =
                 IF RisingEdge
                 THEN JKNext(lastOp'.inputs[1], lastOp'.inputs[2], nodes[QNode].currentValue)
                 ELSE nodes[QNode].currentValue
            /\ outs'["main"] = <<nodes'[QNode].currentValue,
                                 1 - nodes'[QNode].currentValue>>
    ]_vars

\* the JK flip-flop has toggled from 1 to 0 on a rising edge with J = K = 1
C15_Witness ==
  /\ topo = "jkff"
  /\ lastOp.op = "tick"
  /\ lastOp.inputs = <<1, 1>>
  /\ Len(log) = 2
  /\ log[1].clock = 0
  /\ log[2].clock = 1
  /\ nodes[QNode].currentValue = 0
  /\ circuits[main].history[Len(circuits[main].history) - 1].subHistory[1].outputs
       = <<1, 0>>


(***************************************************************************)
(* Gates with a delay.                                                     *)
(***************************************************************************)
\* the value node n returns at tick k (the first tick is 1) of a circuit of
\* Input and Gate nodes ticked every tick with the inputs of `log`, by the
\* rule of the specification: a gate with delay d returns 0 in its first d
\* ticks and then its function of what its children returned d ticks ago
RECURSIVE Delayed(_, _)
Delayed(n, k) ==
  LET node == nodes[n]
  IN CASE node.kind = "Input" -> log[k].inputs[node.index + 1]
       [] node.kind = "Gate" ->
            IF k <= node.delay THEN 0
            ELSE ApplyGate(circuits[main].gateRegistry[node.gateType],
                           [i \in 1..Len(node.inputNodes) |->
                              Delayed(node.inputNodes[i], k - node.delay)]).val

\* the Gate nodes of `main` with a delay
DelayedGates ==
  {n \in GraphNodes(Heap, main) : nodes[n].kind = "Gate" /\ nodes[n].delay > 0}

\* C16: a Gate with delay d > 0 returns the lastValue it held before the
\* evaluation, and what it computes at tick t becomes its lastValue at
\* tick t + d: ticked every tick, after each tick the gate's lastValue, and
\* its output when it is a root, is its function of what its children
\* returned d ticks before, and 0 in the first d ticks; evaluating it again
\* returns that lastValue and leaves it in place.
C16_DelayedGate ==
  (lastOp.op = "tick" /\ lastError = NoError) =>
    /\ Len(log) = circuits[main].totalTicks
    /\ \A g \in DelayedGates :
          /\ nodes[g].lastValue = Delayed(g, Len(log))
          /\ \A x \in Rows(inputLength(Heap, main)) :
                \E r \in {NodeEvaluate(Heap, main, g, x)} :
                   /\ r.val = nodes[g].lastValue
                   /\ r.st.nodes[g].lastValue = nodes[g].lastValue
    /\ \A i \in 1..Len(circuits[main].rootNodes) :
          circuits[main].rootNodes[i] \in DelayedGates =>
            outs["main"][i] = Delayed(circuits[main].rootNodes[i], Len(log))

\* two delay-2 gates in series: the outer gate shows at tick 5 the 0 the
\* inner gate computed from the inputs [1, 1] of tick 1
C16_Witness ==
  /\ topo = "gateChain"
  /\ \A g \in DelayedGates : nodes[g].delay = 2
  /\ Len(log) = 5
  /\ log[1].inputs = <<1, 1>>
  /\ log[3].inputs = <<0, 0>>
  /\ log[5].inputs = <<0, 1>>
  /\ outs["main"] = <<0, 0>>


(***************************************************************************)
(* What evaluating a node may change.                                      *)
(***************************************************************************)
\* every Feedback node of the heap
FeedbackNodes(st) == {f \in 1..Len(st.nodes) : st.nodes[f].kind = "Feedback"}

\* circuit c as Circuit.evaluate has it when the nodes are evaluated in its
\* next tick
InNextTick(st, c) == [st EXCEPT !.circuits[c].currentTick = st.circuits[c].totalTicks]

\* the Feedback nodes whose currentValue differs between two heaps
Rewritten(pre, post) ==
  {f \in FeedbackNodes(pre) : post.nodes[f].currentValue # pre.nodes[f].currentValue}

\* the Feedback nodes a tick of a sub-circuit placed in circuit c may
\* update: those of the sub-circuits that ticked between the two heaps
SubCircuitUpdates(pre, post, c) ==
  UNION {OwnedNodes(pre, pre.nodes[p].subCircuit) :
           p \in {q \in Placements(pre, c) :
                    post.circuits[pre.nodes[q].subCircuit].totalTicks
                      > pre.circuits[pre.nodes[q].subCircuit].totalTicks}}

\* C17: evaluating a node never changes a Feedback node's currentValue.
\* For every circuit, in the tick it has made and in its next tick,
\* evaluating any of its nodes (a root, a Feedback node itself, any node
\* below them) leaves the currentValue of every Feedback node of that
\* circuit as it is; the only Feedback nodes anywhere whose currentValue
\* differs afterwards are those of a sub-circuit that a Composite drove
\* through ticks of its own, in the feedback update of those ticks.
C17_EvaluateKeepsFeedback ==
  lastError = NoError =>
    \A c \in OwnedCircuits(Heap, main) : \A n \in GraphNodes(Heap, c) :
      \A x \in Rows(inputLength(Heap, c)) : \A at \in {Heap, InNextTick(Heap, c)} :
        \E r \in {NodeEvaluate(at, c, n, x)} :
           /\ Rewritten(at, r.st) \cap GraphNodes(Heap, c) = {}
           /\ Rewritten(at, r.st) \subseteq SubCircuitUpdates(at, r.st, c)

\* the chain F1 = Input[0], F2 = F1 after a tick with input 1: F1 holds 1
\* while its driver evaluates to 0 and F2 holds 0 while its driver F1
\* evaluates to 1, and both keep their values through the evaluations
C17_Witness ==
  /\ topo = "chain"
  /\ lastOp.op = "tick"
  /\ lastError = NoError
  /\ LET F1 == circuits[main].feedbackNodes[1]
         F2 == circuits[main].rootNodes[1]
     IN /\ nodes[F1].currentValue = 1
        /\ nodes[F1].initialValue = 0
        /\ nodes[F2].currentValue = 0
        /\ nodes[F2].inputNode = F1
        /\ \E r \in {NodeEvaluate(InNextTick(Heap, main), main, nodes[F1].inputNode, <<0>>)} :
              r.val = 0 /\ r.st.nodes[F1].currentValue = 1
        /\ \E r \in {NodeEvaluate(InNextTick(Heap, main), main, F2, <<0>>)} :
              r.val = 0 /\ r.st.nodes[F2].currentValue = 0


(***************************************************************************)
(* The combinational examples.                                             *)
(***************************************************************************)
\* the number a sequence of bits encodes, the low bit first
Number(bits) ==
  LET N[i \in 0..Len(bits)] == IF i = 0 THEN 0 ELSE N[i - 1] + bits[i] * 2 ^ (i - 1)
  IN N[Len(bits)]

\* the low `width` bits of a number, the low bit first
BitsOf(num, width) == [i \in 1..width |-> (num \div (2 ^ (i - 1))) % 2]

\* C18: the full adder built from two placements of one half-adder
\* template returns [Sum, Cout] = A + B + Cin at every tick, for every
\* row, whatever rows were ticked before; the 4-bit ripple-carry adder
\* built from four placements of the full adder returns the four sum bits
\* and the carry of a + b + cin.
C18_Adders ==
  (lastOp.op = "tick" /\ lastError = NoError) =>
    /\ topo = "fullAdder" =>
          outs["main"] = BitsOf(lastOp.inputs[1] + lastOp.inputs[2] + lastOp.inputs[3], 2)
    /\ topo = "rippleAdder" =>
          outs["main"] = BitsOf(Number(SubSeq(lastOp.inputs, 1, 4))
                                + Number(SubSeq(lastOp.inputs, 5, 8))
                                + lastOp.inputs[9], 5)

\* the ripple-carry adder after 15 + 15 + 1 = 31 returns 9 + 7 + 0 = 16:
\* the carry runs through all four full adders
C18_Witness ==
  /\ topo = "rippleAdder"
  /\ lastOp.op = "tick"
  /\ Len(circuits[main].history) = 2
  /\ circuits[main].history[1].subHistory[1].outputs = <<1, 1, 1, 1, 1>>
  /\ lastOp.inputs = RippleRow(9, 7, 0)
  /\ outs["main"] = <<0, 0, 0, 0, 1>>

\* the truth tables of the half adder, the multiplexers and the decoder
TruthTable(t, x) ==
  CASE t = "halfAdder" -> <<Xor(x[1], x[2]), x[1] * x[2]>>
    [] t = "mux2" -> <<IF x[3] = 0 THEN x[1] ELSE x[2]>>
    [] t = "mux4" -> <<x[1 + x[5] + 2 * x[6]]>>
    [] t = "decoder" -> [k \in 1..4 |-> IF k - 1 = x[1] + 2 * x[2] THEN 1 ELSE 0]

\* C19: for a circuit with no Feedback node and no delay (half adder, 2:1
\* and 4:1 multiplexer, 2-to-4 decoder) the output of tick(x) is a function
\* of x alone: the row of the truth table, whatever rows were ticked
\* before and however many.
C19_Combinational ==
  (lastOp.op = "tick" /\ lastError = NoError
     /\ topo \in {"halfAdder", "mux2", "mux4", "decoder"}) =>
    outs["main"] = TruthTable(topo, lastOp.inputs)

\* the 4:1 multiplexer selects I2 = 1 with S = 10 after a tick that
\* returned 0
C19_Witness ==
  /\ topo = "mux4"
  /\ lastOp.op = "tick"
  /\ Len(circuits[main].history) = 2
  /\ circuits[main].history[1].subHistory[1].outputs = <<0>>
  /\ lastOp.inputs = <<0, 0, 1, 0, 0, 1>>
  /\ outs["main"] = <<1>>

\* circuit c holds no Feedback node and no gate with a delay
Combinational(st, c) ==
  \A n \in GraphNodes(st, c) :
     /\ st.nodes[n].kind # "Feedback"
     /\ st.nodes[n].kind = "Gate" => st.nodes[n].delay = 0

\* C20: a circuit with no Feedback node and no nonzero delay makes exactly
\* one delta cycle in every evaluate: each record of its history holds one
\* delta-cycle entry, numbered 1, and is not marked unstable.
C20_OneDeltaCycle ==
  lastError = NoError =>
    \A c \in OwnedCircuits(Heap, main) :
       Combinational(Heap, c) =>
         \A i \in 1..Len(circuits[c].history) :
            /\ Len(circuits[c].history[i].subHistory) = 1
            /\ circuits[c].history[i].subHistory[1].deltaCycle = 1
            /\ circuits[c].history[i].unstable = FALSE
            /\ circuits[c].history[i].tick = i - 1

\* the zero-delay full adder has ticked twice with different outputs and
\* each of its half adders four times
C20_Witness ==
  /\ topo = "fullAdder"
  /\ Combinational(Heap, main)
  /\ Len(circuits[main].history) = 2
  /\ circuits[main].history[1].subHistory[1].outputs
       # circuits[main].history[2].subHistory[1].outputs
  /\ \A c \in OwnedCircuits(Heap, main) \ {main} :
        Combinational(Heap, c) /\ Len(circuits[c].history) = 4

(***************************************************************************)
(* The tick counters and the history.                                      *)
(***************************************************************************)
\* the history of circuit k holds one record per tick made, numbered from 0
Numbered(cs, k) ==
  /\ Len(cs[k].history) = cs[k].totalTicks
  /\ \A j \in 1..Len(cs[k].history) : cs[k].history[j].tick = j - 1

\* C21: every completed tick of a circuit sets currentTick to the value
\* totalTicks had before the call, appends exactly one history record that
\* carries that number and adds one to totalTicks; over every step of
\* setClock, tick and clone no circuit's totalTicks decreases, and in every
\* circuit (the clones and the sub-circuits of Composite nodes included)
\* the history holds totalTicks records.
C21_TickCounters ==
  [][ /\ \A k \in DOMAIN circuits' : Numbered(circuits', k)
      /\ \A k \in DOMAIN circuits :
            /\ k \in DOMAIN circuits'
            /\ circuits'[k].totalTicks >= circuits[k].totalTicks
      /\ (lastOp'.op = "tick" /\ lastError' = NoError) =>
            \A h \in lastOp'.targets :
               /\ circuits'[Handle(h)].currentTick = circuits[Handle(h)].totalTicks
               /\ circuits'[Handle(h)].totalTicks = circuits[Handle(h)].totalTicks + 1
               /\ circuits'[Handle(h)].history[circuits'[Handle(h)].totalTicks].tick
                    = circuits[Handle(h)].totalTicks
               /\ SubSeq(circuits'[Handle(h)].history, 1, circuits[Handle(h)].totalTicks)
                    = circuits[Handle(h)].history
    ]_vars

\* two Composite placements ticked twice, cloned with state, and the clone
\* ticked once more: the clone is at tick 3, the original at tick 2 and the
\* latches inside have made two ticks per tick of their parent
C21_Witness ==
  /\ topo = "pair"
  /\ forkKind = "true"
  /\ lastError = NoError
  /\ circuits[main].totalTicks = 2
  /\ circuits[main].currentTick = 1
  /\ circuits[fork].totalTicks = 3
  /\ circuits[fork].currentTick = 2
  /\ Len(circuits[fork].history) = 3
  /\ \A n \in Placements(Heap, main) : circuits[nodes[n].subCircuit].totalTicks = 4


(***************************************************************************)
(* The bounded loops.                                                      *)
(***************************************************************************)
\* every Gate of circuit c and of the sub-circuits below it has a function
\* in the registry of the circuit that evaluates it
AllRegistered(st, c) ==
  \A k \in OwnedCircuits(st, c) : \A n \in GraphNodes(st, k) :
     st.nodes[n].kind = "Gate" =>
        st.nodes[n].gateType \in DOMAIN st.circuits[k].gateRegistry

\* the ticks circuit c gained in the step
Gained(c) == circuits'[c].totalTicks - circuits[c].totalTicks

C23_UntilStable ==
  [][ (lastOp'.op = "evaluateUntilStable" /\ lastError' = NoError) =>
        LET seq == NewOutputs(Heap, Heap', main)
            k   == Len(seq)
        IN /\ k = Gained(main)
           /\ k \in 1..result'.cap
           /\ \A j \in 2..(k - 1) : seq[j] # seq[j - 1]
           /\ k = result'.cap \/ (k >= 2 /\ seq[k] = seq[k - 1])
           /\ outs'["main"] = seq[k]
           /\ Heap' = AfterTicks(Heap, main, lastOp'.inputs, k)
           /\ circuits'[main].clock = circuits[main].clock
           /\ circuits'[main].prevClock = circuits[main].prevClock
    ]_vars

\* the chain F1 = Input[0], F2 = F1 driven with 1 from its initial state:
\* the outputs are [0], [1], [1], so the call stops after three ticks of
\* the four allowed
C23_Witness ==
  /\ topo = "chain"
  /\ steps = 1
  /\ lastOp.op = "evaluateUntilStable"
  /\ lastOp.inputs = <<1>>
  /\ result.cap = MaxOuterCap
  /\ circuits[main].totalTicks = 3
  /\ outs["main"] = <<1>>
  /\ circuits[main].history[1].subHistory[1].outputs = <<0>>


(***************************************************************************)
(* The clock.                                                              *)
(***************************************************************************)
\* C24: setClock(v) puts the clock value held before the call in prevClock
\* and v in clock and changes nothing else: totalTicks, currentTick, the
\* feedback list, the registry, the scheduler queue and the history of the
\* circuit, every node (Feedback values, Gate latches, Composite caches)
\* and every other circuit are as before.
C24_SetClockFrame ==
  [][ lastOp'.op = "setClock" =>
        /\ circuits'[main] = [circuits[main] EXCEPT !.prevClock = circuits[main].clock,
                                                    !.clock = lastOp'.inputs[1]]
        /\ nodes' = nodes
        /\ DOMAIN circuits' = DOMAIN circuits
        /\ \A k \in DOMAIN circuits \ {main} : circuits'[k] = circuits[k]
    ]_vars

\* a tick of the delay circuit, then setClock(1) twice: prevClock is 1 and
\* the five events the tick scheduled are still queued
C24_Witness ==
  /\ topo = "delay"
  /\ lastOp.op = "setClock"
  /\ circuits[main].clock = 1
  /\ circuits[main].prevClock = 1
  /\ circuits[main].totalTicks = 1
  /\ Len(circuits[main].events) = 5
  /\ Len(circuits[main].history) = 1

\* what a change of the clock from a to b is called
Edge(a, b) ==
  CASE a = 0 /\ b = 1 -> "POSITIVE EDGE TRIGGER"
    [] a = 1 /\ b = 0 -> "NEGATIVE EDGE TRIGGER"
    [] OTHER -> "SAME"

\* C25: after any sequence of setClock and tick calls getEdgeTrigger
\* reports what the most recent setClock did to the clock: a positive edge
\* for 0 to 1, a negative edge for 1 to 0, SAME when it repeated the value
\* and SAME before any setClock; a tick never changes the report.
C25_EdgeTrigger ==
  [][ /\ steps = 0 => getEdgeTrigger(Heap, main) = "SAME"
      /\ lastOp'.op = "setClock" =>
            /\ getEdgeTrigger(Heap', main) = Edge(circuits[main].clock, lastOp'.inputs[1])
            /\ circuits'[main].clock = lastOp'.inputs[1]
      /\ lastOp'.op \in {"evaluate", "evaluateUntilStable"} =>
            /\ getEdgeTrigger(Heap', main) = getEdgeTrigger(Heap, main)
            /\ circuits'[main].clock = circuits[main].clock
    ]_vars

\* setClock(1), setClock(0) and a tick of the flip-flop: the negative edge
\* is still reported after the tick
C25_Witness ==
  /\ topo = "dff"
  /\ steps = 3
  /\ lastOp.op = "evaluate"
  /\ circuits[main].prevClock = 1
  /\ circuits[main].clock = 0
  /\ getEdgeTrigger(Heap, main) = "NEGATIVE EDGE TRIGGER"


(***************************************************************************)
(* Gates without a registered function.                                    *)
(***************************************************************************)
\* C30: a tick that evaluates a Gate whose kind has no function in the
\* registry of the evaluating circuit fails with UnregisteredGate, whether
\* the gate is a root, occurs only in the driving expression of a Feedback
\* node or sits in the sub-circuit of a Composite; the error leaves
\* evaluate and evaluateUntilStable at once: no tick is counted, no history
\* record is written and no further tick is tried.
C30_UnregisteredGate ==
  [][ (lastOp'.op \in {"evaluate", "evaluateUntilStable"} /\ topo \in UnregisteredTopologies) =>
        /\ ~AllRegistered(Heap, main)
        /\ lastError' = "UnregisteredGate"
        /\ \A k \in DOMAIN circuits :
              /\ circuits'[k].totalTicks = circuits[k].totalTicks
              /\ circuits'[k].history = circuits[k].history
        /\ \A n \in FeedbackNodes(Heap) : nodes'[n].currentValue = nodes[n].currentValue
    ]_vars

\* evaluateUntilStable with four ticks allowed on the circuit whose
\* unregistered gate only drives the Feedback node: the first tick fails
C30_Witness ==
  /\ topo = "unregisteredDriver"
  /\ lastOp.op = "evaluateUntilStable"
  /\ result.cap = MaxOuterCap
  /\ lastError = "UnregisteredGate"
  /\ circuits[main].totalTicks = 0
  /\ circuits[main].history = <<>>


(***************************************************************************)
(* inputLength.                                                            *)
(***************************************************************************)
\* the nodes reachable from the roots of circuit c through Gate children,
\* Feedback driving nodes, Composite input bindings and SubCircuitOutput
\* references
ReachableFromRoots(st, c) == Closure(st, SeqRange(st.circuits[c].rootNodes), {})

ReachableInputs(st, c) ==
  {n \in ReachableFromRoots(st, c) : st.nodes[n].kind = "Input"}

\* C26: inputLength is 1 + the largest index of the Input nodes reachable
\* from the roots, and 0 when no Input node is reachable, on every graph of
\* up to three client nodes: with feedback cycles, with nodes shared
\* between expressions and with Composite nodes.
C26_InputLength ==
  lastOp.op = "inputLength" =>
     /\ ReachableInputs(Heap, main) = {} => result.value = 0
     /\ ReachableInputs(Heap, main) # {} =>
           /\ \E n \in ReachableInputs(Heap, main) : result.value = nodes[n].index + 1
           /\ \A n \in ReachableInputs(Heap, main) : result.value >= nodes[n].index + 1

\* a Feedback node on a cycle through the gate that drives it; the gate's
\* other operand, Input[2], is also the first root, the Feedback node the
\* second
C26_Witness ==
  /\ lastOp.op = "inputLength"
  /\ result.value = MaxIndex + 1
  /\ Len(circuits[main].rootNodes) = 2
  /\ \E f \in ReachableFromRoots(Heap, main) :
        /\ nodes[f].kind = "Feedback"
        /\ f \in Closure(Heap, NodeRefs(Heap, f), {})
        /\ \E g \in NodeRefs(Heap, f) :
              /\ nodes[g].kind = "Gate"
              /\ circuits[main].rootNodes[1] \in NodeRefs(Heap, g)
              /\ nodes[circuits[main].rootNodes[1]].kind = "Input"
              /\ nodes[circuits[main].rootNodes[1]].index = MaxIndex
              /\ circuits[main].rootNodes[2] = f


(***************************************************************************)
(* The scheduler.                                                          *)
(***************************************************************************)
\* the place of event e in the queue
PlaceIn(queue, e) == CHOOSE i \in 1..Len(queue) : queue[i] = e

\* part holds events of the queue in the order the queue holds them
InQueueOrder(part, queue) ==
  /\ \A i \in 1..Len(part) : \E j \in 1..Len(queue) : queue[j] = part[i]
  /\ \A i, j \in 1..Len(part) : i < j => PlaceIn(queue, part[i]) < PlaceIn(queue, part[j])

\* C27: consumeEventsForTick(t) returns exactly the queued events whose
\* targetTick is t, in the order they were scheduled, and leaves in the
\* queue exactly the other events in their order; immediately afterwards
\* hasEventsForTick(t) is false; hasEventsForTick changes nothing and tells
\* whether an event for the tick is queued.
C27_Scheduler ==
  [][ /\ lastOp'.op = "consumeEventsForTick" =>
            /\ InQueueOrder(result'.value, circuits[main].events)
            /\ InQueueOrder(circuits'[main].events, circuits[main].events)
            /\ Len(result'.value) + Len(circuits'[main].events) = Len(circuits[main].events)
            /\ \A i \in 1..Len(result'.value) :
                  result'.value[i].targetTick = lastOp'.inputs[1]
            /\ \A i \in 1..Len(circuits'[main].events) :
                  circuits'[main].events[i].targetTick # lastOp'.inputs[1]
            /\ ~hasEventsForTick(circuits'[main].events, lastOp'.inputs[1])
      /\ lastOp'.op = "hasEventsForTick" =>
            /\ circuits' = circuits
            /\ result'.value =
                  (\E e \in SeqRange(circuits[main].events) : e.targetTick = lastOp'.inputs[1])
    ]_vars

\* events scheduled for ticks 1, 0, 1, 2: consumeEventsForTick(1) returned
\* the first and the third and left the second and the fourth
C27_Witness ==
  /\ lastOp.op = "consumeEventsForTick"
  /\ lastOp.inputs = <<1>>
  /\ Len(result.value) = 2
  /\ result.value[1].callback.value = 1
  /\ result.value[2].callback.value = 3
  /\ Len(circuits[main].events) = 2
  /\ circuits[main].events[1].callback.value = 2
  /\ circuits[main].events[1].targetTick = 0
  /\ circuits[main].events[2].callback.value = 4
  /\ circuits[main].events[2].targetTick = 2


(***************************************************************************)
(* The truth table.                                                        *)
(***************************************************************************)
\* the number a sequence of bits encodes, the high bit first
Encoded(bits) ==
  LET N[i \in 0..Len(bits)] == IF i = 0 THEN 0 ELSE 2 * N[i - 1] + bits[i]
  IN N[Len(bits)]

\* the circuit of the topology as constructed and never used, with the
\* clock at `level`
Unused(t, level) ==
  The({ [st |-> setClock(b.st, b.id, level), id |-> b.id]
        : b \in {BuildTabled(EmptyHeap, t)} })

\* what evaluate(x) returns on a clone(false) of circuit c, the clone's
\* clock set first when a level is passed
OnFreshClone(st, c, clockLevel, x) ==
  The({ CircuitEvaluate(IF clockLevel \in Bits THEN setClock(cl.st, cl.id, clockLevel)
                        ELSE cl.st,
                        cl.id, x, DefaultMaxDeltaCycles).val
        : cl \in {clone(st, c, FALSE)} })

\* C28: generateTruthTable returns 2^inputLength rows; row i carries the
\* bits of i, the most significant at index 0, one bit per input; its
\* outputs are what one evaluate returns on a clone(false) of the circuit
\* as it was before the call; and the table is the table the same call
\* returns on a never used circuit of the same construction and clock,
\* whatever Feedback values, Gate latches, pending events and tick count
\* the original has.
C28_TruthTable ==
  (lastOp.op = "generateTruthTable" /\ lastError = NoError) =>
     /\ Len(result.value) = 2 ^ inputLength(Heap, main)
     /\ \A i \in 1..Len(result.value) :
           /\ Encoded(result.value[i].inputs) = i - 1
           /\ inputLength(Heap, main) > 0 =>
                 Len(result.value[i].inputs) = inputLength(Heap, main)
           /\ result.value[i].outputs =
                 OnFreshClone(Heap, main, lastOp.inputs[1], result.value[i].inputs)
     /\ result.value =
           The({ generateTruthTable(u.st, u.id, lastOp.inputs[1]).table
                 : u \in {Unused(topo, circuits[main].clock)} })

\* the table of the flip-flop taken with the clock at 1 after a rising edge
\* has stored D = 1: the row of D = 0 reads Q = 0, as on an unused flip-flop
\* that sees its first rising edge, while the original holds Q = 1
C28_Witness ==
  /\ topo = "dff"
  /\ lastOp.op = "generateTruthTable"
  /\ lastOp.inputs = <<NullLevel>>
  /\ circuits[main].clock = 1
  /\ nodes[circuits[main].rootNodes[1]].currentValue = 1
  /\ circuits[main].totalTicks = 1
  /\ Len(result.value) = 2
  /\ result.value[1] = [inputs |-> <<0>>, outputs |-> <<0, 1>>]

\* C29: simplify() and generateTruthTable() leave the circuit they are
\* called on as it was: every node and every circuit that existed before
\* the call (the node graph, Feedback values, Gate latches, Composite
\* caches and sub-circuits, clock, scheduler queue, totalTicks and history)
\* is unchanged, also when simplify fails; the circuit simplify returns is
\* built from nodes made during the call.
C29_OriginalUntouched ==
  [][ lastOp'.op \in {"simplify", "generateTruthTable"} =>
        /\ SubSeq(nodes', 1, Len(nodes)) = nodes
        /\ SubSeq(circuits', 1, Len(circuits)) = circuits
        /\ main' = main
        /\ (lastOp'.op = "simplify" /\ lastError' = NoError) =>
              /\ fork' > Len(circuits)
              /\ \A n \in OwnedNodes(Heap', fork') : n > Len(nodes)
        /\ lastOp'.op = "generateTruthTable" => Len(nodes') = Len(nodes)
    ]_vars

\* simplify() has returned a circuit for the pair of latches after a tick
\* set the first latch: the latch and the Composite cache still hold 1
C29_Witness ==
  /\ topo = "pair"
  /\ lastOp.op = "simplify"
  /\ forkKind = "simplified"
  /\ circuits[main].totalTicks = 1
  /\ \E n \in Placements(Heap, main) :
        /\ nodes[n].cachedOutputs = <<1>>
        /\ circuits[nodes[n].subCircuit].totalTicks = 2
  /\ OwnedNodes(Heap, fork) \cap OwnedNodes(Heap, main) = {}

(***************************************************************************)
(* Prime-implicant generation and the shape of the simplified circuit.     *)
(***************************************************************************)
\* the truth table simplify() generates of the original
TableOfMain == generateTruthTable(Heap, main, NullLevel).table

LanesOfMain == 0..(outputLength(Heap, main) - 1)

\* neither the constant 0 nor the constant 1
Mixed(minterms) == Len(minterms) # 0 /\ Len(minterms) # 2 ^ inputLength(Heap, main)

\* C32: for every output lane whose minterms are neither none nor all of
\* the rows, each minterm is covered by a term findPrimeImplicants returns,
\* and simplify does not fail with InfeasibleCover.
C32_PrimesCoverMinterms ==
  /\ lastError # "InfeasibleCover"
  /\ steps = 0 =>
       \A i \in LanesOfMain : \E minterms \in {generateMinterms(TableOfMain, i)} :
         Mixed(minterms) =>
           \E primes \in {findPrimeImplicants(minterms)} :
             \A k \in 1..Len(minterms) :
               \E p \in 1..Len(primes) : Covers(primes[p], minterms[k])

\* C37: every term findPrimeImplicants returns expands to minterms only,
\* and on no row does the circuit simplify returned output 1 on a lane
\* where the original outputs 0.
C37_PrimesCoverOnlyMinterms ==
  /\ steps = 0 =>
       \A i \in LanesOfMain : \E minterms \in {generateMinterms(TableOfMain, i)} :
         Mixed(minterms) =>
           \E primes \in {findPrimeImplicants(minterms)} :
             \A p \in 1..Len(primes) :
               \A row \in SeqRange(findCoverValues(primes[p])) : Includes(minterms, row)
  /\ (lastOp.op = "evaluate" /\ lastError = NoError) =>
       \A k \in 1..Len(outs["main"]) : outs["main"][k] = 0 => outs["fork"][k] = 0

\* a three-input original whose simplified circuit is a sum of several
\* products has been evaluated on a row where the original outputs 0
C37_Witness ==
  /\ lastOp.op = "evaluate"
  /\ lastError = NoError
  /\ inputLength(Heap, main) = 3
  /\ outs["main"] = <<0>>
  /\ outs["fork"] = <<0>>
  /\ LET root == nodes[circuits[fork].rootNodes[1]]
     IN root.kind = "Gate" /\ root.gateType = "OR" /\ Len(root.inputNodes) = 3

\* C38: the circuit simplify returns has the outputLength and the
\* inputLength of the original.
C38_SameLengths ==
  forkKind = "simplified" =>
    /\ outputLength(Heap, fork) = outputLength(Heap, main)
    /\ inputLength(Heap, fork) = inputLength(Heap, main)

\* some output lane of the table changes when input j alone is flipped
DependsOn(table, j) ==
  \E a, b \in 1..Len(table) :
    /\ \A i \in 1..Len(table[a].inputs) :
         (table[a].inputs[i] = table[b].inputs[i]) <=> (i # j + 1)
    /\ table[a].outputs # table[b].outputs

\* C38, amended: the circuit simplify returns has the outputLength of the
\* original, and its inputLength is 1 + the highest input index that some
\* output lane of the original depends on (0 if there is none), which is at
\* most the inputLength of the original.
C38_LengthsOfSimplified ==
  forkKind = "simplified" =>
    /\ outputLength(Heap, fork) = outputLength(Heap, main)
    /\ inputLength(Heap, fork) <= inputLength(Heap, main)
    /\ \E table \in {TableOfMain} :
         inputLength(Heap, fork) =
           (LET used == {j + 1 : j \in {i \in 0..(inputLength(Heap, main) - 1) :
                                          DependsOn(table, i)}} \cup {0}
            IN CHOOSE x \in used : \A y \in used : x >= y)

\* simplify has returned a circuit of two inputs for an original of three
\* inputs that is not constant
C38_Witness ==
  /\ forkKind = "simplified"
  /\ lastOp.op = "simplify"
  /\ inputLength(Heap, main) = 3
  /\ inputLength(Heap, fork) = 2
  /\ nodes[circuits[fork].rootNodes[1]].kind = "Gate"

(***************************************************************************)
(* The feedback update list and the scheduler queue of a circuit.          *)
(***************************************************************************)
\* the updates of Feedback node n queued in circuit c for tick t
QueuedUpdates(c, n, t) ==
  {k \in 1..Len(circuits[c].events) :
     /\ circuits[c].events[k].callback.node = n
     /\ circuits[c].events[k].targetTick = t}

\* C33: in every circuit each registered Feedback node occurs exactly once
\* in feedbackNodes, and the queue holds at most one update of a registered
\* node per target tick (one delta cycle schedules at most one).
C33_RegisteredOnce ==
  \A c \in 1..Len(circuits) :
    LET list == circuits[c].feedbackNodes
    IN /\ \A i, j \in 1..Len(list) : list[i] = list[j] => i = j
       /\ \A n \in SeqRange(list) :
            \A t \in {circuits[c].events[k].targetTick : k \in 1..Len(circuits[c].events)} :
              Cardinality(QueuedUpdates(c, n, t)) <= 1

\* the largest delay of a Gate or Feedback node of circuit c
LargestDelay(c) ==
  LET delays == {nodes[n].delay : n \in OwnedNodes(Heap, c)} \cup {0}
  IN CHOOSE d \in delays : \A e \in delays : d >= e

\* C39: after a completed tick at tick t of a circuit, every event in its
\* scheduler queue has t < targetTick <= t + (the largest delay in the
\* circuit).
C39_QueueWithinDelays ==
  (lastOp.op = "tick" /\ lastError = NoError) =>
    \A h \in lastOp.targets :
      LET c == Handle(h)
          t == circuits[c].totalTicks - 1
      IN \A k \in 1..Len(circuits[c].events) :
           /\ t < circuits[c].events[k].targetTick
           /\ circuits[c].events[k].targetTick <= t + LargestDelay(c)

(***************************************************************************)
(* Hand-wired graphs: lanes, caches and failing ticks.                     *)
(***************************************************************************)
\* the SubCircuitOutput nodes of circuit c
LaneReaders(c) == {n \in OwnedNodes(Heap, c) : nodes[n].kind = "SubCircuitOutput"}

\* C31: a SubCircuitOutput whose outputIndex is not a lane of its
\* Composite's sub-circuit is never constructed, so no tick of a circuit
\* fails with IndexOutOfRange or returns a value read outside the cached
\* output vector.
C31_LaneChecked ==
  lastOp.op = "tick" =>
    /\ \A n \in LaneReaders(main) :
         /\ nodes[n].outputIndex >= 0
         /\ nodes[n].outputIndex <
              outputLength(Heap, nodes[nodes[n].compositeNode].subCircuit)
    /\ lastError # "IndexOutOfRange"
    /\ \A k \in 1..Len(outs["main"]) : outs["main"][k] # Undefined

\* the heap with no Composite output cached
Uncached(st) ==
  [st EXCEPT !.nodes = [n \in 1..Len(st.nodes) |->
                          IF st.nodes[n].kind = "Composite"
                          THEN [st.nodes[n] EXCEPT !.lastEvaluationTick = -1]
                          ELSE st.nodes[n]]]

\* C34: the output vector a completed tick returns is the value of every
\* root under the Feedback values in force after the tick's feedback
\* update: evaluating the roots anew in the state the tick leaves, with no
\* Composite output cached, gives the returned vector.
C34_RootsAfterFeedbackUpdate ==
  (lastOp.op = "tick" /\ lastError = NoError) =>
    outs["main"] = EvaluateAll(Uncached(Heap), main, circuits[main].rootNodes,
                               lastOp.inputs).vals

\* C36: a tick that raises leaves every node and every circuit as it was
\* before the call.
C36_FailedTickChangesNothing ==
  [][ (lastOp'.op = "tick" /\ lastError' # NoError) =>
        /\ nodes' = nodes
        /\ circuits' = circuits
    ]_vars

\* C36, amended: a tick that raises leaves totalTicks and the history of
\* the circuit as they were (the tick is not counted and not recorded) and
\* currentTick at the tick number that failed.
C36_FailedTickNotCounted ==
  [][ (lastOp'.op = "tick" /\ lastError' # NoError) =>
        /\ circuits'[main].totalTicks = circuits[main].totalTicks
        /\ circuits'[main].history = circuits[main].history
        /\ circuits'[main].currentTick = circuits[main].totalTicks
    ]_vars

\* the first tick of the oscillator with the unregistered root has failed:
\* the Feedback node was written before the root raised, no tick is counted
C36_Witness ==
  /\ topo = "partialOscillator"
  /\ lastOp.op = "tick"
  /\ lastError = "UnregisteredGate"
  /\ circuits[main].totalTicks = 0
  /\ circuits[main].history = <<>>
  /\ \E n \in FeedbackNodes(Heap) : nodes[n].currentValue = 1

(***************************************************************************)
(* Clones, templates and gate registries.                                  *)
(***************************************************************************)
\* C35: registerGate on a circuit changes the registry of that circuit
\* only: every node and every other circuit (a clone made earlier, the
\* private sub-circuit of a Composite made from the circuit) is as before.
\* A clone starts with the registry its original has at the call.  The
\* sub-circuit of a Composite resolves its gates in the registry copied
\* from the template at construction: the parent that registered no gate
\* evaluates it, also after the template's gate was registered anew.
C35_OwnRegistry ==
  [][ /\ lastOp'.op = "registerGate" =>
           \E h \in lastOp'.targets :
             /\ nodes' = nodes
             /\ \A c \in 1..Len(circuits) : c # Handle(h) => circuits'[c] = circuits[c]
             /\ circuits'[Handle(h)] =
                  [circuits[Handle(h)] EXCEPT
                     !.gateRegistry = circuits'[Handle(h)].gateRegistry]
      /\ lastOp'.op = "clone" =>
           circuits'[fork'].gateRegistry = circuits[main].gateRegistry
      /\ (topo = "borrowed" /\ lastOp'.op = "tick") =>
           /\ lastError' = NoError
           /\ outs'["main"] = <<ReduceAnd(lastOp'.inputs, 1)>>
           /\ \A n \in Placements(Heap', main) :
                circuits'[nodes'[n].subCircuit].gateRegistry = [g \in {"G"} |-> StdGate("AND")]
    ]_vars

\* the parent, which has no gate G, has been ticked on [0, 1] after G was
\* registered anew as OR on the template: the Composite still computes AND
C35_Witness ==
  /\ topo = "borrowed"
  /\ "G" \notin DOMAIN circuits[main].gateRegistry
  /\ lastOp.op = "tick"
  /\ lastOp.inputs = <<0, 1>>
  /\ outs["main"] = <<0>>
  /\ circuits[fresh].gateRegistry["G"] = StdGate("OR")

\* currentValue and initialValue of the registered Feedback nodes of c
FeedbackValuesOf(c) ==
  [i \in 1..Len(circuits[c].feedbackNodes) |->
     [currentValue |-> nodes[circuits[c].feedbackNodes[i]].currentValue,
      initialValue |-> nodes[circuits[c].feedbackNodes[i]].initialValue]]

\* C40: clone(true).clone(false) of a circuit has the Feedback values of
\* clone(false) of the circuit.
C40_InitialValueKept ==
  forkKind = "twice" => FeedbackValuesOf(fork) = FeedbackValuesOf(fresh)


====
